---- MODULE Spec2Model ----
(***************************************************************************)
(* A model of the helpers of @ovotech/json-schema                          *)
(* (packages/json-schema/src/helpers.ts): childOptions, isEqual, flatten   *)
(* and the dispatcher validateSchema.                                      *)
(*                                                                         *)
(* JavaScript values are tagged records.  A primitive carries its payload  *)
(* (n, s, b); an array, a plain object and a Date carry `ref`, the         *)
(* allocation they came from, so that === on them is identity and not      *)
(* structure.  A plain object keeps its properties as a sequence of        *)
(* <<key, value>> pairs in insertion order, which is the order             *)
(* Object.keys reports.                                                    *)
(***************************************************************************)
EXTENDS Integers, Sequences, FiniteSets, TLC

VARIABLES
    pc,        \* "ready" before the call under study, "done" after it
    schema,    \* validateSchema: the schema argument
    value,     \* validateSchema: the value argument
    options,   \* validateSchema: the options argument
    errors,    \* validateSchema: the list returned
    called,    \* validateSchema: the validator invocations, in order
    lhs,       \* isEqual: the argument a
    rhs,       \* isEqual: the argument b
    equal,     \* isEqual: the boolean returned
    heap,      \* childOptions: the options objects alive, by reference
    frames,    \* childOptions: the descents under way, the root's first:
               \* the key descended through and the options object in force
    at,        \* descents: the keys descended through when validateSchema
               \* was last called
    mem,       \* validations: the objects the calls can reach (the schema,
               \* the options, the module's NoErrors, the arrays allocated)
    runs,      \* validations: each call's position, value and locals
    stack,     \* references: the validateSchema calls under way, outermost
               \* first, each with the nested calls it has still to make
    calls,     \* references: the validateSchema calls made so far
    app,       \* server: the application handed to laminar({app})
    reqs,      \* server: the requests, each with its position and response
    log,       \* server: the calls of logger.log, in order
    users,     \* server: the users the application's handlers keep
    server,    \* server: the requests answered so far, and those answered
               \* with an error
    applied,   \* helpers: the function called and its arguments
    answer,    \* helpers: what the call returned
    stream,    \* request body: the incoming stream, what is left of it and
               \* how often it was read
    task       \* request body: the position of request() and what it holds

validateVars == <<schema, value, options, errors, called>>
equalVars == <<lhs, rhs, equal>>
childVars == <<heap, frames, at>>
runVars == <<mem, runs>>
refVars == <<stack, calls>>
serverVars == <<app, reqs, log, users, server>>
callVars == <<applied, answer>>
bodyVars == <<stream, task>>

vars == <<pc, validateVars, equalVars, childVars, runVars, refVars, serverVars,
          callVars, bodyVars>>

(* Bounds of the model. *)
MaxValidators == 2   \* length of options.validators
MaxErrors == 2       \* errors one validator reports on one call
MaxLen == 2          \* length of an array handed to isEqual
MaxDepth == 2        \* descents nested in one another
MaxRuns == 2         \* validations sharing one schema and one options
MaxRequests == 2     \* requests the server receives

(* Placeholder of a variable the specification at hand does not use. *)
Unused == [t |-> "unused"]

(* The variables of the other specifications, when one does not use them. *)
EqualUnused == lhs = Unused /\ rhs = Unused /\ equal = Unused
ChildUnused == heap = Unused /\ frames = Unused /\ at = Unused
RunUnused == mem = Unused /\ runs = Unused
RefUnused == stack = Unused /\ calls = Unused
ServerUnused ==
    /\ app = Unused
    /\ reqs = Unused
    /\ log = Unused
    /\ users = Unused
    /\ server = Unused
ValidateUnused ==
    /\ schema = Unused
    /\ value = Unused
    /\ options = Unused
    /\ errors = Unused
    /\ called = Unused
CallUnused == applied = Unused /\ answer = Unused
BodyUnused == stream = Unused /\ task = Unused

(* The variables a specification leaves alone. *)
validateOthers == <<equalVars, childVars, runVars, refVars, serverVars, callVars, bodyVars>>
equalOthers == <<validateVars, childVars, runVars, refVars, serverVars, callVars, bodyVars>>
childOthers == <<equalVars, runVars, refVars, serverVars, callVars, bodyVars>>
runOthers == <<pc, value, errors, called, equalVars, childVars, refVars, serverVars, callVars, bodyVars>>
refOthers == <<options, errors, called, equalVars, childVars, runVars, serverVars, callVars, bodyVars>>
serverOthers == <<pc, validateVars, equalVars, childVars, runVars, refVars, callVars, bodyVars>>
callOthers == <<validateVars, equalVars, childVars, runVars, refVars, serverVars, bodyVars>>
bodyOthers == <<validateVars, equalVars, childVars, runVars, refVars, serverVars, callVars>>

(***************************************************************************)
(* JavaScript values                                                       *)
(***************************************************************************)
undefined == [t |-> "undefined"]
null == [t |-> "null"]
Bool(b) == [t |-> "boolean", b |-> b]
Num(n) == [t |-> "number", n |-> n]
Str(s) == [t |-> "string", s |-> s]
Arr(ref, items) == [t |-> "array", ref |-> ref, items |-> items]
Obj(ref, props) == [t |-> "object", ref |-> ref, props |-> props]
DateOf(ref, time) == [t |-> "date", ref |-> ref, time |-> time]

(* The set of the elements of a sequence. *)
Range(seq) == {seq[i] : i \in 1..Len(seq)}

(* typeof v === 'object' *)
TypeofObject(v) == v.t \in {"null", "array", "object", "date"}

(* Array.isArray(v) *)
IsArray(v) == v.t = "array"

(* a === b: primitives by type and payload, objects by identity. *)
StrictEquals(a, b) ==
    IF a.t # b.t THEN FALSE
    ELSE IF a.t \in {"array", "object", "date"} THEN a.ref = b.ref
    ELSE a = b

(* The truthiness of v, as `if (v)` and `v && ...` take it. *)
ToBoolean(v) ==
    CASE v.t \in {"undefined", "null"} -> FALSE
      [] v.t = "boolean" -> v.b
      [] v.t = "number" -> v.n # 0
      [] v.t = "string" -> v.s # ""
      [] OTHER -> TRUE

(* Object.keys(v) of a plain object: its keys in insertion order.  A Date  *)
(* has no own enumerable property.                                         *)
ObjectKeys(v) ==
    IF v.t = "object" THEN [i \in 1..Len(v.props) |-> v.props[i][1]] ELSE <<>>

(* v[key] of an object: undefined when v has no such property. *)
Get(v, key) ==
    IF v.t = "object" /\ \E i \in 1..Len(v.props) : v.props[i][1] = key
    THEN v.props[CHOOSE i \in 1..Len(v.props) : v.props[i][1] = key][2]
    ELSE undefined

(* isObject: a truthy non-array object. *)
isObject(v) == ToBoolean(v) /\ TypeofObject(v) /\ ~IsArray(v)

(* isJsonSchema: a truthy value of typeof 'object'. *)
isJsonSchema(s) == ToBoolean(s) /\ TypeofObject(s)

(***************************************************************************)
(* childOptions                                                            *)
(***************************************************************************)
(* The decimal digit d as a string. *)
Digit(d) ==
    CASE d = 0 -> "0" [] d = 1 -> "1" [] d = 2 -> "2" [] d = 3 -> "3" [] d = 4 -> "4"
      [] d = 5 -> "5" [] d = 6 -> "6" [] d = 7 -> "7" [] d = 8 -> "8" [] d = 9 -> "9"

RECURSIVE NumberToString(_)
(* The string of a non-negative integer, as a template literal renders it. *)
NumberToString(n) ==
    IF n < 10 THEN Digit(n) ELSE NumberToString(n \div 10) \o Digit(n % 10)

(* `${name}` of a name that is a string or a number. *)
TemplateString(name) == IF name.t = "number" THEN NumberToString(name.n) ELSE name.s

(* The reference of a newly allocated object. *)
NewRef(objects) == 1 + Cardinality(DOMAIN objects)

(* A plausible slip: the name is assigned to the options object handed in, *)
(* which is returned.                                                      *)
childOptions_inPlace(name, opts, objects) ==
    [ret |-> opts,
     heap |-> [objects EXCEPT ![opts].name = objects[opts].name \o "." \o TemplateString(name)]]

(* A plausible slip: the spread comes last and restores the parent's name. *)
childOptions_spreadLast(name, opts, objects) ==
    [ret |-> NewRef(objects),
     heap |-> [r \in DOMAIN objects \cup {NewRef(objects)} |->
                 IF r \in DOMAIN objects THEN objects[r] ELSE objects[opts]]]

(* childOptions(name, options), with the heap it runs in: opts is the      *)
(* reference of the options object.  The object literal allocates a new    *)
(* object, copies every property of options into it (the spread) and then  *)
(* sets its name; the result is the new reference and the heap after.      *)
childOptions(name, opts, objects) ==
    [ret |-> NewRef(objects),
     heap |-> [r \in DOMAIN objects \cup {NewRef(objects)} |->
                 IF r \in DOMAIN objects THEN objects[r]
                 ELSE [objects[opts] EXCEPT !.name = objects[opts].name \o "." \o TemplateString(name)]]]

(***************************************************************************)
(* isEqual                                                                 *)
(***************************************************************************)
(* The UTF-16 code unit of a one-character key: the order of the default   *)
(* comparator of Array.prototype.sort.                                     *)
CodeUnit(k) == CASE k = "a" -> 97 [] k = "b" -> 98 [] k = "c" -> 99

RECURSIVE sort(_)
(* keys.sort(): ascending by code unit (the keys of one object differ). *)
sort(keys) ==
    IF keys = <<>> THEN <<>>
    ELSE LET least == CHOOSE i \in 1..Len(keys) :
                          \A j \in 1..Len(keys) : CodeUnit(keys[i]) <= CodeUnit(keys[j])
         IN <<keys[least]>>
            \o sort(SubSeq(keys, 1, least - 1) \o SubSeq(keys, least + 1, Len(keys)))

(* The array of strings that Object.keys(...).sort() returns: a new array. *)
KeyArray(ref, keys) == Arr(ref, [i \in 1..Len(keys) |-> Str(keys[i])])

RECURSIVE isEqual(_, _)

(* A plausible slip: the length test of the array branch is missing. *)
isEqual_noLength(a, b) ==
    IF StrictEquals(a, b) THEN TRUE
    ELSE IF a.t = "undefined" \/ b.t = "undefined" \/ a.t = "null" \/ b.t = "null"
    THEN FALSE
    ELSE IF TypeofObject(a) /\ TypeofObject(b)
    THEN IF a.t = "date" /\ b.t = "date"
         THEN a.time = b.time
         ELSE IF IsArray(a) /\ IsArray(b)
         THEN \A index \in 1..Len(a.items) :
                  isEqual(a.items[index],
                          IF index <= Len(b.items) THEN b.items[index] ELSE undefined)
         ELSE IF ~IsArray(a) /\ ~IsArray(b)
         THEN LET aKeys == sort(ObjectKeys(a))
                  bKeys == sort(ObjectKeys(a))
              IN /\ isEqual(KeyArray("aKeys", aKeys), KeyArray("bKeys", bKeys))
                 /\ \A i \in 1..Len(aKeys) : isEqual(Get(a, aKeys[i]), Get(b, aKeys[i]))
         ELSE FALSE
    ELSE FALSE

(* A plausible slip: the keys of both objects are taken, but not sorted. *)
isEqual_unsortedKeys(a, b) ==
    IF StrictEquals(a, b) THEN TRUE
    ELSE IF a.t = "undefined" \/ b.t = "undefined" \/ a.t = "null" \/ b.t = "null"
    THEN FALSE
    ELSE IF TypeofObject(a) /\ TypeofObject(b)
    THEN IF a.t = "date" /\ b.t = "date"
         THEN a.time = b.time
         ELSE IF IsArray(a) /\ IsArray(b)
         THEN /\ Len(a.items) = Len(b.items)
              /\ \A index \in 1..Len(a.items) : isEqual(a.items[index], b.items[index])
         ELSE IF ~IsArray(a) /\ ~IsArray(b)
         THEN LET aKeys == ObjectKeys(a)
                  bKeys == ObjectKeys(b)
              IN /\ isEqual(KeyArray("aKeys", aKeys), KeyArray("bKeys", bKeys))
                 /\ \A i \in 1..Len(aKeys) : isEqual(Get(a, aKeys[i]), Get(b, aKeys[i]))
         ELSE FALSE
    ELSE FALSE

isEqual(a, b) ==
    IF StrictEquals(a, b) THEN TRUE
    ELSE IF a.t = "undefined" \/ b.t = "undefined" \/ a.t = "null" \/ b.t = "null"
    THEN FALSE
    ELSE IF TypeofObject(a) /\ TypeofObject(b)
    THEN IF a.t = "date" /\ b.t = "date"
         THEN a.time = b.time
         ELSE IF IsArray(a) /\ IsArray(b)
         THEN /\ Len(a.items) = Len(b.items)
              /\ \A index \in 1..Len(a.items) : isEqual(a.items[index], b.items[index])
         ELSE IF ~IsArray(a) /\ ~IsArray(b)
         THEN LET aKeys == sort(ObjectKeys(a))
                  bKeys == sort(ObjectKeys(a))
              IN /\ isEqual(KeyArray("aKeys", aKeys), KeyArray("bKeys", bKeys))
                 /\ \A i \in 1..Len(aKeys) : isEqual(Get(a, aKeys[i]), Get(b, aKeys[i]))
         ELSE FALSE
    ELSE FALSE

(***************************************************************************)
(* flatten                                                                 *)
(***************************************************************************)
RECURSIVE PushAll(_, _)
(* The inner loop of flatten: combined.push(error) for each error of result. *)
PushAll(combined, result) ==
    IF result = <<>> THEN combined
    ELSE PushAll(Append(combined, Head(result)), Tail(result))

RECURSIVE FlattenInto(_, _)
(* The outer loop of flatten, from the list combined built so far. *)
FlattenInto(combined, results) ==
    IF results = <<>> THEN combined
    ELSE FlattenInto(PushAll(combined, Head(results)), Tail(results))

(* A plausible slip: results are prepended, so later lists come first. *)
flatten_reversed(results) ==
    LET Rev[i \in 0..Len(results)] ==
            IF i = 0 THEN <<>> ELSE results[i] \o Rev[i - 1]
    IN Rev[Len(results)]

(* Slip: only the first error of each list is pushed. *)
flatten_firstOfEach(results) ==
    LET Firsts[i \in 0..Len(results)] ==
            IF i = 0 THEN <<>>
            ELSE Firsts[i - 1] \o (IF results[i] = <<>> THEN <<>> ELSE <<results[i][1]>>)
    IN Firsts[Len(results)]

(* Slip: the loop stops after the first list that holds an error. *)
flatten_firstFailing(results) ==
    IF \A i \in 1..Len(results) : results[i] = <<>> THEN <<>>
    ELSE results[CHOOSE i \in 1..Len(results) :
                    /\ results[i] # <<>>
                    /\ \A k \in 1..i - 1 : results[k] = <<>>]

flatten(results) == FlattenInto(<<>>, results)

(***************************************************************************)
(* NoErrors, HasError                                                      *)
(***************************************************************************)
NoErrors == <<>>

(* Slip: the optional param is left out of the error. *)
HasError_noParam(code, name, param) == <<[code |-> code, name |-> name]>>

HasError(code, name, param) == <<[code |-> code, name |-> name, param |-> param]>>

(***************************************************************************)
(* Validators.  options.validators is an input of validateSchema: a list   *)
(* of functions (schema, value, options) -> errors.  A validator of the    *)
(* model is [keyword, accepts, count]: it looks at schema[keyword] (the    *)
(* keyword "*" stands for a validator that looks at no keyword and always  *)
(* judges the value), accepts the values of type `accepts`, and reports    *)
(* `count` errors at options.name on any other value.                      *)
(***************************************************************************)
Keywords == {"type", "enum"}

ValidatorKinds ==
    { [keyword |-> "*", accepts |-> "none"],
      [keyword |-> "type", accepts |-> "number"],
      [keyword |-> "enum", accepts |-> "null"] }

Validators ==
    { [keyword |-> k.keyword, accepts |-> k.accepts, count |-> n] :
        k \in ValidatorKinds, n \in 1..MaxErrors }

(* validator(schema, value, options) *)
Invoke(validator, s, v, opts) ==
    IF (validator.keyword = "*" \/ validator.keyword \in Range(ObjectKeys(s)))
       /\ v.t # validator.accepts
    THEN [j \in 1..validator.count |->
            HasError(validator.keyword, opts.name, Num(j))[1]]
    ELSE NoErrors

(* What the dispatcher's map records of its i-th callback. *)
Invocation(i, s, v, opts) ==
    [validator |-> i, schema |-> s, value |-> v, options |-> opts,
     returned |-> Invoke(opts.validators[i], s, v, opts)]

(***************************************************************************)
(* validateSchema: the list returned (errors) and the validators invoked,  *)
(* in order (called).                                                      *)
(***************************************************************************)
(* options.validators.map(validator => validator(schema, value, options)) *)
MapValidators(s, v, opts) ==
    [i \in 1..Len(opts.validators) |-> Invocation(i, s, v, opts)]

(* A plausible slip: `schema === true` is not tested, so true falls to the *)
(* truthy branch.                                                          *)
validateSchema_noTrueBranch(s, v, opts) ==
    IF StrictEquals(s, Bool(FALSE))
    THEN [errors |-> <<[code |-> "false", name |-> opts.name, param |-> Bool(FALSE)]>>,
          called |-> <<>>]
    ELSE IF ToBoolean(s)
    THEN LET invocations == MapValidators(s, v, opts)
         IN [errors |-> flatten([i \in 1..Len(invocations) |-> invocations[i].returned]),
             called |-> invocations]
    ELSE [errors |-> <<>>, called |-> <<>>]

(* A plausible slip: the error of a false schema names the root, not the   *)
(* current path.                                                           *)
validateSchema_rootName(s, v, opts) ==
    IF StrictEquals(s, Bool(TRUE))
    THEN [errors |-> <<>>, called |-> <<>>]
    ELSE IF StrictEquals(s, Bool(FALSE))
    THEN [errors |-> <<[code |-> "false", name |-> "value", param |-> Bool(FALSE)]>>,
          called |-> <<>>]
    ELSE IF ToBoolean(s)
    THEN LET invocations == MapValidators(s, v, opts)
         IN [errors |-> flatten([i \in 1..Len(invocations) |-> invocations[i].returned]),
             called |-> invocations]
    ELSE [errors |-> <<>>, called |-> <<>>]

(* A plausible slip: the dispatcher stops at the first validator that      *)
(* reports an error.                                                       *)
validateSchema_shortCircuit(s, v, opts) ==
    IF StrictEquals(s, Bool(TRUE))
    THEN [errors |-> <<>>, called |-> <<>>]
    ELSE IF StrictEquals(s, Bool(FALSE))
    THEN [errors |-> <<[code |-> "false", name |-> opts.name, param |-> Bool(FALSE)]>>,
          called |-> <<>>]
    ELSE IF ToBoolean(s)
    THEN LET all == MapValidators(s, v, opts)
             failing == {i \in 1..Len(all) : all[i].returned # <<>>}
             last == IF failing = {} THEN Len(all)
                     ELSE CHOOSE i \in failing : \A j \in failing : i <= j
             invocations == SubSeq(all, 1, last)
         IN [errors |-> flatten([i \in 1..Len(invocations) |-> invocations[i].returned]),
             called |-> invocations]
    ELSE [errors |-> <<>>, called |-> <<>>]

(* A plausible slip: the validators are handed the root schema instead of  *)
(* the schema of the node.                                                 *)
validateSchema_rootSchema(s, v, opts) ==
    IF StrictEquals(s, Bool(TRUE))
    THEN [errors |-> <<>>, called |-> <<>>]
    ELSE IF StrictEquals(s, Bool(FALSE))
    THEN [errors |-> <<[code |-> "false", name |-> opts.name, param |-> Bool(FALSE)]>>,
          called |-> <<>>]
    ELSE IF ToBoolean(s)
    THEN LET invocations == MapValidators(opts.root, v, opts)
         IN [errors |-> flatten([i \in 1..Len(invocations) |-> invocations[i].returned]),
             called |-> invocations]
    ELSE [errors |-> <<>>, called |-> <<>>]

validateSchema(s, v, opts) ==
    IF StrictEquals(s, Bool(TRUE))
    THEN [errors |-> <<>>, called |-> <<>>]
    ELSE IF StrictEquals(s, Bool(FALSE))
    THEN [errors |-> <<[code |-> "false", name |-> opts.name, param |-> Bool(FALSE)]>>,
          called |-> <<>>]
    ELSE IF ToBoolean(s)
    THEN LET invocations == MapValidators(s, v, opts)
         IN [errors |-> flatten([i \in 1..Len(invocations) |-> invocations[i].returned]),
             called |-> invocations]
    ELSE [errors |-> <<>>, called |-> <<>>]

(***************************************************************************)
(* The inputs of validateSchema.                                           *)
(***************************************************************************)
(* Schema Objects: the empty schema, one with only an unknown keyword, and *)
(* ones with registered keywords.                                          *)
SchemaObjects ==
    { Obj("schema", <<>>),
      Obj("schema", << <<"x-unknown", Num(1)>> >>),
      Obj("schema", << <<"type", Str("number")>> >>),
      Obj("schema", << <<"enum", Arr("enum", <<null>>)>>, <<"x-unknown", Num(1)>> >>),
      Obj("schema", << <<"type", Str("number")>>, <<"enum", Arr("enum", <<null>>)>> >>) }

(* What a caller can pass where the type Schema is expected. *)
Schemas ==
    {Bool(TRUE), Bool(FALSE)} \cup SchemaObjects
    \cup {null, undefined, Num(0), Num(5), Str(""), Str("number")}

Values == {null, Num(1), Str("a")}

Names == {"value", "value.items.0"}

Roots == {Obj("root", <<>>), Obj("root", << <<"type", Str("number")>>, <<"enum", Arr("enum", <<null>>)>> >>)}

ValidatorLists == UNION {[1..n -> Validators] : n \in 0..MaxValidators}

OptionsSet ==
    { [name |-> n, validators |-> vs, refs |-> Obj("refs", <<>>), root |-> r] :
        n \in Names, vs \in ValidatorLists, r \in Roots }

(***************************************************************************)
(* Specification: one call of validateSchema on any input.                 *)
(***************************************************************************)
Init ==
    /\ pc = "ready"
    /\ schema \in Schemas
    /\ value \in Values
    /\ options \in OptionsSet
    /\ errors = Unused
    /\ called = Unused
    /\ EqualUnused
    /\ ChildUnused
    /\ RunUnused
    /\ RefUnused
    /\ ServerUnused
    /\ CallUnused
    /\ BodyUnused

ValidateSchema ==
    /\ pc = "ready"
    /\ LET r == validateSchema(schema, value, options)
       IN /\ errors' = r.errors
          /\ called' = r.called
    /\ pc' = "done"
    /\ UNCHANGED <<schema, value, options, validateOthers>>

Next == ValidateSchema

Spec == Init /\ [][Next]_vars

(***************************************************************************)
(* The inputs of isEqual.  Every array, object and Date of a tree carries  *)
(* the tree's ref: the two arguments are either two trees allocated apart  *)
(* (no object of one is an object of the other) or one and the same tree.  *)
(***************************************************************************)
EqKeys == {"a", "b"}

(* What an array or an object of the inputs holds. *)
Elements(ref) ==
    { undefined, Num(1), Num(2),
      Arr(ref, <<Num(1)>>),
      Obj(ref, << <<"a", Num(1)>> >>),
      Obj(ref, << <<"a", Num(1)>>, <<"b", Num(2)>> >>) }

Arrays(ref) ==
    {Arr(ref, items) : items \in UNION {[1..n -> Elements(ref)] : n \in 0..MaxLen}}

(* The lists of distinct keys, in every insertion order. *)
KeyLists ==
    {ks \in UNION {[1..n -> EqKeys] : n \in 0..Cardinality(EqKeys)} :
        \A i, j \in 1..Len(ks) : i # j => ks[i] # ks[j]}

Objects(ref) ==
    UNION { {Obj(ref, [i \in 1..Len(ks) |-> <<ks[i], vs[i]>>]) :
                vs \in [1..Len(ks) -> Elements(ref)]} : ks \in KeyLists }

Dates(ref) == {DateOf(ref, 1000), DateOf(ref, 2000)}

JsValues(ref) ==
    {undefined, null, Num(1), Num(2), Str("a"), Bool(TRUE)}
    \cup Arrays(ref) \cup Objects(ref) \cup Dates(ref)

(***************************************************************************)
(* Specification: one call of isEqual on any two inputs.                   *)
(***************************************************************************)
InitEqual ==
    /\ pc = "ready"
    /\ lhs \in JsValues("a")
    /\ rhs \in JsValues("b") \cup {lhs}
    /\ equal = Unused
    /\ ValidateUnused
    /\ ChildUnused
    /\ RunUnused
    /\ RefUnused
    /\ ServerUnused
    /\ CallUnused
    /\ BodyUnused

IsEqual ==
    /\ pc = "ready"
    /\ equal' = isEqual(lhs, rhs)
    /\ pc' = "done"
    /\ UNCHANGED <<lhs, rhs, equalOthers>>

NextEqual == IsEqual

SpecEqual == InitEqual /\ [][NextEqual]_vars

(***************************************************************************)
(* Specification: descents.  A validator that recurses into a property or  *)
(* an array element calls childOptions(key, options) and validates under   *)
(* the object returned; when it is done, the caller goes on with its own   *)
(* options object.                                                         *)
(***************************************************************************)
(* Property names and array indexes descended through. *)
ChildKeys == {Str("items"), Str("a"), Num(0), Num(10)}

ChildValidatorLists ==
    { <<>>,
      <<[keyword |-> "type", accepts |-> "number", count |-> 1]>>,
      <<[keyword |-> "type", accepts |-> "number", count |-> 1],
        [keyword |-> "enum", accepts |-> "null", count |-> 1]>> }

ChildOptionsSet ==
    { [name |-> n, validators |-> vs, refs |-> Obj("refs", <<>>), root |-> r] :
        n \in Names, vs \in ChildValidatorLists, r \in Roots }

InitChild ==
    /\ pc = "ready"
    /\ options \in ChildOptionsSet
    /\ heap = [r \in {1} |-> options]
    /\ frames = <<[key |-> undefined, options |-> 1]>>
    /\ at = Unused
    /\ schema = Unused
    /\ value = Unused
    /\ errors = Unused
    /\ called = Unused
    /\ EqualUnused
    /\ RunUnused
    /\ RefUnused
    /\ ServerUnused
    /\ CallUnused
    /\ BodyUnused

(* A descent through key: childOptions(key, options) of the options in force. *)
Descend ==
    /\ Len(frames) <= MaxDepth
    /\ \E key \in ChildKeys :
          LET r == childOptions(key, frames[Len(frames)].options, heap)
          IN /\ heap' = r.heap
             /\ frames' = Append(frames, [key |-> key, options |-> r.ret])
    /\ UNCHANGED <<pc, validateVars, at, childOthers>>

(* The descent returns: its options object is dropped and the caller's is  *)
(* in force again.                                                         *)
Ascend ==
    /\ Len(frames) > 1
    /\ frames' = SubSeq(frames, 1, Len(frames) - 1)
    /\ heap' = [r \in {frames'[i].options : i \in 1..Len(frames')} |-> heap[r]]
    /\ UNCHANGED <<pc, validateVars, at, childOthers>>

NextChild == Descend \/ Ascend

SpecChild == InitChild /\ [][NextChild]_vars

(***************************************************************************)
(* Specification: descents with validation.  At any depth the validator    *)
(* in charge of the node calls validateSchema(schema, value, options) with *)
(* the options object in force.                                            *)
(***************************************************************************)
(* The schemas of a node: false, and a Schema Object whose keywords the    *)
(* validators of ChildValidatorLists look at.                              *)
NodeSchemas ==
    { Bool(FALSE),
      Obj("schema", << <<"type", Str("number")>>, <<"enum", Arr("enum", <<null>>)>> >>) }

(* The keys of the descents under way, outermost first. *)
KeysOf(fs) == [i \in 1..Len(fs) - 1 |-> fs[i + 1].key]

(* Nothing has been validated yet: no error, no validator called. *)
InitPath ==
    /\ pc = "ready"
    /\ options \in ChildOptionsSet
    /\ heap = [r \in {1} |-> options]
    /\ frames = <<[key |-> undefined, options |-> 1]>>
    /\ at = <<>>
    /\ schema = undefined
    /\ value = undefined
    /\ errors = <<>>
    /\ called = <<>>
    /\ EqualUnused
    /\ RunUnused
    /\ RefUnused
    /\ ServerUnused
    /\ CallUnused
    /\ BodyUnused

ValidateNode ==
    /\ \E s \in NodeSchemas, v \in {Str("x"), Num(1)} :
          LET r == validateSchema(s, v, heap[frames[Len(frames)].options])
          IN /\ schema' = s
             /\ value' = v
             /\ errors' = r.errors
             /\ called' = r.called
    /\ at' = KeysOf(frames)
    /\ UNCHANGED <<pc, options, heap, frames, childOthers>>

NextPath == Descend \/ Ascend \/ ValidateNode

SpecPath == InitPath /\ [][NextPath]_vars

(***************************************************************************)
(* Specification: one validation against {allOf: [s1, ..., sn]}.  The      *)
(* allOf validator is registered after the validators of the options; it   *)
(* validates the value against every listed schema with validateSchema,    *)
(* under the options it received, and flattens what they return.           *)
(***************************************************************************)
(* The allOf validator: (schema, value, options) -> errors. *)
validateAllOf(s, v, opts) ==
    LET allOf == Get(s, "allOf")
    IN IF IsArray(allOf) /\ Len(allOf.items) > 0
       THEN flatten([i \in 1..Len(allOf.items) |->
                        validateSchema(allOf.items[i], v, opts).errors])
       ELSE NoErrors

(* validateSchema(s, v, opts) of a Schema Object when validateAllOf is the *)
(* last of the validators.                                                 *)
validateWithAllOf(s, v, opts) ==
    LET invocations == MapValidators(s, v, opts)
    IN flatten([i \in 1..Len(invocations) + 1 |->
                  IF i <= Len(invocations) THEN invocations[i].returned
                  ELSE validateAllOf(s, v, opts)])

SubSchemas ==
    { Bool(TRUE), Bool(FALSE),
      Obj("sub", << <<"type", Str("number")>> >>),
      Obj("sub", << <<"enum", Arr("enum", <<null>>)>> >>),
      Obj("sub", << <<"type", Str("number")>>, <<"enum", Arr("enum", <<null>>)>> >>) }

AllOfSchemas ==
    { Obj("schema", << <<"allOf", Arr("allOf", subs)>> >>) :
        subs \in UNION {[1..n -> SubSchemas] : n \in 0..MaxLen} }

InitAllOf ==
    /\ pc = "ready"
    /\ schema \in AllOfSchemas
    /\ value \in Values
    /\ options \in ChildOptionsSet
    /\ errors = Unused
    /\ called = Unused
    /\ EqualUnused
    /\ ChildUnused
    /\ RunUnused
    /\ RefUnused
    /\ ServerUnused
    /\ CallUnused
    /\ BodyUnused

ValidateAllOf ==
    /\ pc = "ready"
    /\ errors' = validateWithAllOf(schema, value, options)
    /\ pc' = "done"
    /\ UNCHANGED <<schema, value, options, called, validateOthers>>

NextAllOf == ValidateAllOf

SpecAllOf == InitAllOf /\ [][NextAllOf]_vars

(***************************************************************************)
(* Specification: validations sharing one schema and one options.  The     *)
(* memory holds what the calls can reach: the schema and the options       *)
(* handed to every call, the array NoErrors of the module, which a         *)
(* validator returns when it has nothing to report, and the arrays the     *)
(* calls allocate.  A call advances one callback of the map at a time, and *)
(* the calls under way advance in any order.                               *)
(***************************************************************************)
(* References to arrays: the module's NoErrors, or the k-th array          *)
(* allocated by a call.                                                    *)
NoErrorsRef == [run |-> 0, k |-> 0]

Deref(ref, m) ==
    IF ref = NoErrorsRef THEN m.NoErrors ELSE m.arrays[ref.run][ref.k]

(* arrays[ref] := items *)
Store(ref, items, m) ==
    IF ref = NoErrorsRef
    THEN [m EXCEPT !.NoErrors = items]
    ELSE [m EXCEPT !.arrays[ref.run][ref.k] = items]

(* A new array holding items, allocated by the call run. *)
Alloc(run, items, m) ==
    [ret |-> [run |-> run, k |-> Len(m.arrays[run]) + 1],
     mem |-> [m EXCEPT !.arrays[run] = Append(@, items)]]

(* Slip: the callbacks are taken off the front of options.validators. *)
mapStep_shift(r, run, m) ==
    LET inv == [validator |-> Len(run.results) + 1, schema |-> m.schema,
                value |-> m.values[r], options |-> m.options,
                returned |-> IF m.options.validators = <<>> THEN NoErrors
                             ELSE Invoke(Head(m.options.validators), m.schema,
                                         m.values[r], m.options)]
        shifted == [m EXCEPT !.options.validators = SubSeq(@, 2, Len(@))]
        a == IF inv.returned = NoErrors
             THEN [ret |-> NoErrorsRef, mem |-> shifted]
             ELSE Alloc(r, inv.returned, shifted)
    IN [run |-> [run EXCEPT !.results = Append(@, a.ret),
                            !.called = Append(@, inv)],
        mem |-> a.mem]

(* One callback of options.validators.map(validator => validator(schema,   *)
(* value, options)): the validator after those already called receives the *)
(* arguments of validateSchema and returns NoErrors or an array of its own. *)
mapStep(r, run, m) ==
    LET inv == Invocation(Len(run.results) + 1, m.schema, m.values[r], m.options)
        a == IF inv.returned = NoErrors
             THEN [ret |-> NoErrorsRef, mem |-> m]
             ELSE Alloc(r, inv.returned, m)
    IN [run |-> [run EXCEPT !.results = Append(@, a.ret),
                            !.called = Append(@, inv)],
        mem |-> a.mem]

(* Slip: with nothing to combine the shared NoErrors is returned. *)
flattenMem_reuseNoErrors(run, results, m) ==
    IF \A i \in 1..Len(results) : Deref(results[i], m) = <<>>
    THEN [ret |-> NoErrorsRef, mem |-> m]
    ELSE Alloc(run, flatten([i \in 1..Len(results) |-> Deref(results[i], m)]), m)

(* Slip: flatten accumulates into the first result instead of a new array. *)
flattenMem_intoFirst(run, results, m) ==
    IF results = <<>>
    THEN Alloc(run, <<>>, m)
    ELSE [ret |-> results[1],
          mem |-> Store(results[1],
                        flatten([i \in 1..Len(results) |-> Deref(results[i], m)]), m)]

(* flatten(results): combined is a new array, the results are only read. *)
flattenMem(run, results, m) ==
    Alloc(run, flatten([i \in 1..Len(results) |-> Deref(results[i], m)]), m)

RunIds == 1..MaxRuns

RunSchemas ==
    { Bool(TRUE), Bool(FALSE), null,
      Obj("schema", << <<"type", Str("number")>> >>),
      Obj("schema", << <<"type", Str("number")>>, <<"enum", Arr("enum", <<null>>)>> >>) }

RunValidatorLists ==
    { <<[keyword |-> "type", accepts |-> "number", count |-> 1],
        [keyword |-> "enum", accepts |-> "null", count |-> 1]>>,
      <<[keyword |-> "enum", accepts |-> "null", count |-> 2],
        [keyword |-> "*", accepts |-> "none", count |-> 1]>> }

RunOptionsSet ==
    { [name |-> "value", validators |-> vs, refs |-> Obj("refs", <<>>),
       root |-> Obj("root", <<>>)] : vs \in RunValidatorLists }

Idle == [state |-> "idle", value |-> undefined, results |-> <<>>,
         called |-> <<>>, ret |-> NoErrorsRef, out |-> <<>>]

InitRuns ==
    /\ pc = "ready"
    /\ schema \in RunSchemas
    /\ options \in RunOptionsSet
    /\ mem = [schema |-> schema, options |-> options, NoErrors |-> <<>>,
              values |-> [r \in RunIds |-> undefined],
              arrays |-> [r \in RunIds |-> <<>>]]
    /\ runs = [r \in RunIds |-> Idle]
    /\ value = Unused
    /\ errors = Unused
    /\ called = Unused
    /\ EqualUnused
    /\ ChildUnused
    /\ RefUnused
    /\ ServerUnused
    /\ CallUnused
    /\ BodyUnused

(* A call that returns a new array holding items at once. *)
ReturnNew(r, v, items) ==
    LET a == Alloc(r, items, [mem EXCEPT !.values[r] = v])
    IN /\ mem' = a.mem
       /\ runs' = [runs EXCEPT ![r].state = "returned", ![r].value = v,
                                ![r].ret = a.ret, ![r].out = Deref(a.ret, a.mem)]

(* validateSchema(schema, v, options) is entered: lines 61 to 65. *)
Call(r) ==
    /\ runs[r].state = "idle"
    /\ \E v \in Values :
          IF StrictEquals(mem.schema, Bool(TRUE))
          THEN ReturnNew(r, v, <<>>)
          ELSE IF StrictEquals(mem.schema, Bool(FALSE))
          THEN ReturnNew(r, v, <<[code |-> "false", name |-> mem.options.name,
                                  param |-> Bool(FALSE)]>>)
          ELSE IF ToBoolean(mem.schema)
          THEN /\ runs' = [runs EXCEPT ![r].state = "map", ![r].value = v]
               /\ mem' = [mem EXCEPT !.values[r] = v]
          ELSE ReturnNew(r, v, <<>>)
    /\ UNCHANGED <<schema, options, runOthers>>

(* The next callback of options.validators.map(...). *)
CallValidator(r) ==
    /\ runs[r].state = "map"
    /\ Len(runs[r].results) < Len(options.validators)
    /\ LET a == mapStep(r, runs[r], mem)
       IN /\ mem' = a.mem
          /\ runs' = [runs EXCEPT ![r] = a.run]
    /\ UNCHANGED <<schema, options, runOthers>>

(* The map is over: flatten(results) is returned. *)
Return(r) ==
    /\ runs[r].state = "map"
    /\ Len(runs[r].results) = Len(options.validators)
    /\ LET a == flattenMem(r, runs[r].results, mem)
       IN /\ mem' = a.mem
          /\ runs' = [runs EXCEPT ![r].state = "returned", ![r].ret = a.ret,
                                   ![r].out = Deref(a.ret, a.mem)]
    /\ UNCHANGED <<schema, options, runOthers>>

NextRuns == \E r \in RunIds : Call(r) \/ CallValidator(r) \/ Return(r)

SpecRuns == InitRuns /\ [][NextRuns]_vars

(***************************************************************************)
(* Specification: one validation against a schema that refers to itself.   *)
(* The validators that descend (properties, items) and the one that        *)
(* follows a reference ($ref) call validateSchema again; the calls under   *)
(* way form a stack.  properties and items hand the nested call a part of  *)
(* the value, $ref hands it the same value and the schema the reference    *)
(* resolves to.                                                            *)
(***************************************************************************)
(* The cap on the nested calls: beyond what any value of the model needs. *)
MaxStack == 2 * MaxDepth + 4

(* resolveRef: the schema "#" points at is the root document. *)
resolveRef(ref, root) == IF ref = Str("#") THEN root ELSE undefined

(* Slip: the property's schema is applied to the object, not to the field. *)
propertiesCalls_sameValue(s, v) ==
    LET properties == Get(s, "properties")
        present == SelectSeq(ObjectKeys(properties),
                             LAMBDA key : key \in Range(ObjectKeys(v)))
    IN IF isObject(properties) /\ isObject(v)
       THEN [i \in 1..Len(present) |->
               [schema |-> Get(properties, present[i]), value |-> v,
                via |-> "properties"]]
       ELSE <<>>

(* properties: one nested call per declared property the value has. *)
propertiesCalls(s, v) ==
    LET properties == Get(s, "properties")
        present == SelectSeq(ObjectKeys(properties),
                             LAMBDA key : key \in Range(ObjectKeys(v)))
    IN IF isObject(properties) /\ isObject(v)
       THEN [i \in 1..Len(present) |->
               [schema |-> Get(properties, present[i]),
                value |-> Get(v, present[i]), via |-> "properties"]]
       ELSE <<>>

(* items, single-schema form: one nested call per element of the array. *)
itemsCalls(s, v) ==
    IF isJsonSchema(Get(s, "items")) /\ IsArray(v)
    THEN [i \in 1..Len(v.items) |->
            [schema |-> Get(s, "items"), value |-> v.items[i], via |-> "items"]]
    ELSE <<>>

(* $ref: one nested call, on the same value, with the resolved schema. *)
refCalls(s, v, root) ==
    IF Get(s, "$ref").t = "string"
    THEN <<[schema |-> resolveRef(Get(s, "$ref"), root), value |-> v, via |-> "$ref"]>>
    ELSE <<>>

(* The nested calls of validateSchema(s, v, options): none for a boolean   *)
(* or a falsy schema, those of the validators for a Schema Object.         *)
NestedCalls(s, v, root) ==
    IF StrictEquals(s, Bool(TRUE)) \/ StrictEquals(s, Bool(FALSE)) \/ ~ToBoolean(s)
    THEN <<>>
    ELSE refCalls(s, v, root) \o propertiesCalls(s, v) \o itemsCalls(s, v)

Frame(call, root) ==
    [schema |-> call.schema, value |-> call.value, via |-> call.via,
     todo |-> NestedCalls(call.schema, call.value, root)]

(* Documents whose sub-schemas point back at the document. *)
SelfRef == Obj("ref", << <<"$ref", Str("#")>> >>)

RefDocuments ==
    { Obj("root", << <<"properties",
                       Obj("properties",
                           << <<"val", Obj("val", << <<"type", Str("number")>> >>)>>,
                              <<"next", SelfRef>> >>)>> >>),
      Obj("root", << <<"items", SelfRef>> >>),
      Obj("root", << <<"properties", Obj("properties", << <<"next", SelfRef>> >>)>>,
                     <<"items", SelfRef>> >>) }

(* The finite values: leaves, and objects and arrays of shallower values. *)
Trees ==
    LET T[d \in 0..MaxDepth] ==
            IF d = 0 THEN {null, Num(1)}
            ELSE T[d - 1]
                 \cup {Obj("v", << <<"next", u>> >>) : u \in T[d - 1]}
                 \cup {Obj("v", << <<"val", Num(1)>>, <<"next", u>> >>) : u \in T[d - 1]}
                 \cup {Arr("v", <<u>>) : u \in T[d - 1]}
                 \cup {Arr("v", <<u, Num(1)>>) : u \in T[d - 1]}
    IN T[MaxDepth]

InitRef ==
    /\ pc = "ready"
    /\ schema \in RefDocuments
    /\ value \in Trees
    /\ stack = <<Frame([schema |-> schema, value |-> value, via |-> "root"], schema)>>
    /\ calls = 1
    /\ options = Unused
    /\ errors = Unused
    /\ called = Unused
    /\ EqualUnused
    /\ ChildUnused
    /\ RunUnused
    /\ ServerUnused
    /\ CallUnused
    /\ BodyUnused

(* The call under way makes its next nested call. *)
Enter ==
    /\ stack # <<>>
    /\ stack[Len(stack)].todo # <<>>
    /\ Len(stack) < MaxStack
    /\ LET top == stack[Len(stack)]
       IN stack' = Append([stack EXCEPT ![Len(stack)].todo = Tail(@)],
                          Frame(Head(top.todo), schema))
    /\ calls' = calls + 1
    /\ UNCHANGED <<pc, schema, value, refOthers>>

(* The call under way has made all its nested calls and returns. *)
Leave ==
    /\ stack # <<>>
    /\ stack[Len(stack)].todo = <<>>
    /\ stack' = SubSeq(stack, 1, Len(stack) - 1)
    /\ pc' = IF Len(stack) = 1 THEN "done" ELSE pc
    /\ UNCHANGED <<calls, schema, value, refOthers>>

NextRef == Enter \/ Leave

SpecRef == InitRef /\ [][NextRef]_vars

(* The validation is synchronous: a call under way always proceeds. *)
SpecRefFair == SpecRef /\ WF_vars(NextRef)

(***************************************************************************)
(* Specification: a server whose application is                            *)
(* createLogging(logger, options)(handler).  The middleware logs the       *)
(* request, awaits the handler, logs what came of it (the response, or the *)
(* error, which it throws again), and laminar answers the client.  The     *)
(* requests under way advance in any order.                                *)
(***************************************************************************)
RequestIds == 1..MaxRequests

(* The handlers of the tests: one returns 'OK', one throws, one is async   *)
(* and rejects.                                                            *)
Handlers ==
    { [kind |-> "returns", body |-> "OK"],
      [kind |-> "throws", message |-> "Test Error"],
      [kind |-> "rejects", message |-> "Other Error"] }

(* The error formatter: the default one, or the one of the third test. *)
Formatters == {"default", "custom"}

LoggedUrls == {"/test/23", "/test/23?test=other"}

(* What the handler yields on a request. *)
RunHandler(handler) ==
    IF handler.kind = "returns"
    THEN [kind |-> "returned", status |-> 200, body |-> handler.body]
    ELSE [kind |-> "thrown", message |-> handler.message]

(* The metadata of an 'Error' log call. *)
FormatError(formatter, message) ==
    IF formatter = "custom"
    THEN [message |-> "MY " \o message]
    ELSE [message |-> message, stack |-> "Error: " \o message]

(* logger.log('info', 'Request', {uri, body}): the body of a request       *)
(* without a content type is the stream itself.                            *)
LogRequestCall(r, method, url) ==
    [req |-> r, level |-> "info", message |-> "Request",
     meta |-> [uri |-> method \o " " \o url, body |-> "[Stream]"]]

(* Slip: the outcome is logged as a response whatever the handler did. *)
LogOutcomeCall_alwaysResponse(r, formatter, outcome) ==
    [req |-> r, level |-> "info", message |-> "Response",
     meta |-> [status |-> 200, body |-> "OK"]]

(* logger.log for what came of the handler. *)
LogOutcomeCall(r, formatter, outcome) ==
    IF outcome.kind = "returned"
    THEN [req |-> r, level |-> "info", message |-> "Response",
          meta |-> [status |-> outcome.status, body |-> outcome.body]]
    ELSE [req |-> r, level |-> "error", message |-> "Error",
          meta |-> FormatError(formatter, outcome.message)]

(* The response laminar sends: the handler's; the code and the body of an  *)
(* HttpError; 500 and the message for any other error.                     *)
ToResponse(outcome) ==
    IF outcome.kind = "returned"
    THEN [status |-> outcome.status, body |-> outcome.body]
    ELSE IF outcome.kind = "httpError"
    THEN [status |-> outcome.status, body |-> outcome.body]
    ELSE [status |-> 500, body |-> [message |-> outcome.message]]

NoRequest == [phase |-> "none"]

InitLogging ==
    /\ app \in [handler : Handlers, formatter : Formatters]
    /\ reqs = [r \in RequestIds |-> NoRequest]
    /\ log = <<>>
    /\ users = Unused
    /\ server = Unused
    /\ pc = "ready"
    /\ ValidateUnused
    /\ EqualUnused
    /\ ChildUnused
    /\ RunUnused
    /\ RefUnused
    /\ CallUnused
    /\ BodyUnused

(* A request arrives: the middleware logs it and calls the handler. *)
LogRequest(r) ==
    /\ reqs[r].phase = "none"
    /\ \E url \in LoggedUrls :
          /\ reqs' = [reqs EXCEPT ![r] = [phase |-> "handling", method |-> "GET",
                                          url |-> url]]
          /\ log' = Append(log, LogRequestCall(r, "GET", url))
    /\ UNCHANGED <<app, users, server, serverOthers>>

(* The handler has returned or thrown: the middleware logs the outcome. *)
LogOutcome(r) ==
    /\ reqs[r].phase = "handling"
    /\ LET outcome == RunHandler(app.handler)
       IN /\ reqs' = [reqs EXCEPT ![r] = [phase |-> "settled", method |-> @.method,
                                          url |-> @.url, outcome |-> outcome]]
          /\ log' = Append(log, LogOutcomeCall(r, app.formatter, outcome))
    /\ UNCHANGED <<app, users, server, serverOthers>>

(* laminar answers the client. *)
Respond(r) ==
    /\ reqs[r].phase = "settled"
    /\ reqs' = [reqs EXCEPT ![r] = [phase |-> "responded", method |-> @.method,
                                    url |-> @.url, outcome |-> @.outcome,
                                    response |-> ToResponse(@.outcome)]]
    /\ UNCHANGED <<app, log, users, server, serverOthers>>

NextLogging == \E r \in RequestIds : LogRequest(r) \/ LogOutcome(r) \/ Respond(r)

SpecLogging == InitLogging /\ [][NextLogging]_vars

(***************************************************************************)
(* Specification: the server of the integration test.  Its application is  *)
(* a router over the handlers of the test, which keep the users.  A        *)
(* request is routed and handled, then answered; the next one follows.     *)
(***************************************************************************)
UserIds == {"10", "20", "30"}

(* const users = { 10: 'John', 20: 'Tom' } *)
InitialUsers ==
    [id \in UserIds |->
        IF id = "10" THEN Str("John") ELSE IF id = "20" THEN Str("Tom") ELSE undefined]

Returns(body) == [kind |-> "returned", status |-> 200, body |-> body]

(* throw new HttpError(404, { message: 'No User Found' }) *)
NoUserFound == [kind |-> "httpError", status |-> 404, body |-> [message |-> "No User Found"]]

(* redirect(location): status 302 and the text telling where to. *)
Redirect(location) ==
    [kind |-> "returned", status |-> 302, body |-> Str("Redirecting to " \o location)]

(* Slip: the handlers of /users/{id} write before they look the user up. *)
RunRoute_writeFirst(handler, req, us) ==
    CASE handler \in {"patchUser", "postUser"} ->
            IF ToBoolean(us[req.path[2]])
            THEN [users |-> [us EXCEPT ![req.path[2]] = Str(req.body.name)],
                  outcome |-> Returns([saved |-> TRUE])]
            ELSE [users |-> [us EXCEPT ![req.path[2]] = Str(req.body.name)],
                  outcome |-> NoUserFound]
      [] handler = "deleteUser" ->
            IF ToBoolean(us[req.path[2]])
            THEN [users |-> [us EXCEPT ![req.path[2]] = undefined],
                  outcome |-> Returns([deleted |-> TRUE])]
            ELSE [users |-> us, outcome |-> NoUserFound]
      [] handler = "getUser" ->
            IF ToBoolean(us[req.path[2]])
            THEN [users |-> us,
                  outcome |-> Returns([id |-> req.path[2], name |-> us[req.path[2]].s])]
            ELSE [users |-> us, outcome |-> NoUserFound]
      [] handler = "putUser" ->
            [users |-> [us EXCEPT ![req.body.id] = Str(req.body.name)],
             outcome |-> Returns([added |-> TRUE])]
      [] handler = "error" ->
            [users |-> us, outcome |-> [kind |-> "thrown", message |-> "unknown"]]
      [] OTHER -> [users |-> us, outcome |-> Returns(undefined)]

(* The handlers of the test: what each does to the users and what it       *)
(* returns or throws.  path.id is the second segment of /users/{id}.       *)
RunRoute(handler, req, us) ==
    CASE handler = "healthCheck" ->
            [users |-> us, outcome |-> Returns([health |-> "ok"])]
      [] handler \in {"link", "linkOther"} ->
            [users |-> us, outcome |-> Redirect("http://localhost:8092/destination")]
      [] handler = "destination" ->
            [users |-> us, outcome |-> Returns([arrived |-> TRUE])]
      [] handler = "error" ->
            [users |-> us, outcome |-> [kind |-> "thrown", message |-> "unknown"]]
      [] handler = "optionsUser" ->
            [users |-> us, outcome |-> Returns(undefined)]
      [] handler = "getUser" ->
            IF ToBoolean(us[req.path[2]])
            THEN [users |-> us,
                  outcome |-> Returns([id |-> req.path[2], name |-> us[req.path[2]].s])]
            ELSE [users |-> us, outcome |-> NoUserFound]
      [] handler = "putUser" ->
            [users |-> [us EXCEPT ![req.body.id] = Str(req.body.name)],
             outcome |-> Returns([added |-> TRUE])]
      [] handler = "patchUser" ->
            IF ToBoolean(us[req.path[2]])
            THEN [users |-> [us EXCEPT ![req.path[2]] = Str(req.body.name)],
                  outcome |-> Returns([patched |-> TRUE])]
            ELSE [users |-> us, outcome |-> NoUserFound]
      [] handler = "postUser" ->
            IF ToBoolean(us[req.path[2]])
            THEN [users |-> [us EXCEPT ![req.path[2]] = Str(req.body.name)],
                  outcome |-> Returns([saved |-> TRUE])]
            ELSE [users |-> us, outcome |-> NoUserFound]
      [] handler = "deleteUser" ->
            IF ToBoolean(us[req.path[2]])
            THEN [users |-> [us EXCEPT ![req.path[2]] = undefined],
                  outcome |-> Returns([deleted |-> TRUE])]
            ELSE [users |-> us, outcome |-> NoUserFound]

(* router(get(...), ...): the routes in the order they are registered. *)
Routes ==
    << [method |-> "GET", pattern |-> <<".well-known", "health-check">>, handler |-> "healthCheck"],
       [method |-> "GET", pattern |-> <<"link">>, handler |-> "link"],
       [method |-> "GET", pattern |-> <<"link-other">>, handler |-> "linkOther"],
       [method |-> "GET", pattern |-> <<"destination">>, handler |-> "destination"],
       [method |-> "GET", pattern |-> <<"error">>, handler |-> "error"],
       [method |-> "OPTIONS", pattern |-> <<"users", "{id}">>, handler |-> "optionsUser"],
       [method |-> "GET", pattern |-> <<"users", "{id}">>, handler |-> "getUser"],
       [method |-> "PUT", pattern |-> <<"users">>, handler |-> "putUser"],
       [method |-> "PATCH", pattern |-> <<"users", "{id}">>, handler |-> "patchUser"],
       [method |-> "POST", pattern |-> <<"users", "{id}">>, handler |-> "postUser"],
       [method |-> "DELETE", pattern |-> <<"users", "{id}">>, handler |-> "deleteUser"] >>

(* The path as the client wrote it: an empty last segment is a trailing slash. *)
PathText(path) ==
    LET Text[i \in 0..Len(path)] ==
            IF i = 0 THEN "" ELSE Text[i - 1] \o "/" \o path[i]
    IN Text[Len(path)]

(* Slip: a route matches every path that starts with its pattern. *)
Matches_prefix(pattern, path) ==
    /\ Len(path) >= Len(pattern)
    /\ \A i \in 1..Len(pattern) : pattern[i] = "{id}" \/ pattern[i] = path[i]

(* Whether the path is the route's: segment by segment, a parameter taking *)
(* any segment, one trailing slash allowed.                                *)
Matches(pattern, path) ==
    LET segments == IF path # <<>> /\ path[Len(path)] = ""
                    THEN SubSeq(path, 1, Len(path) - 1) ELSE path
    IN /\ Len(segments) = Len(pattern)
       /\ \A i \in 1..Len(pattern) : pattern[i] = "{id}" \/ pattern[i] = segments[i]

(* The first route of the request, 0 when no route is. *)
FindRoute(req) ==
    LET matching == {i \in 1..Len(Routes) :
                        Routes[i].method = req.method /\ Matches(Routes[i].pattern, req.path)}
    IN IF matching = {} THEN 0
       ELSE CHOOSE i \in matching : \A k \in matching : i <= k

(* The router: the handler of the first matching route, else 404. *)
Router(req, us) ==
    IF FindRoute(req) = 0
    THEN [users |-> us,
          outcome |-> [kind |-> "httpError", status |-> 404,
                       body |-> [message |-> "Path " \o req.method \o " "
                                              \o PathText(req.path) \o " not found"]]]
    ELSE RunRoute(Routes[FindRoute(req)].handler, req, us)

Methods == {"GET", "PUT", "PATCH", "POST", "DELETE", "OPTIONS"}

RequestPaths ==
    { <<"unknown-url">>, <<"error">>, <<"destination">>,
      <<".well-known", "health-check">>, <<".well-known", "health-check", "">>,
      <<".well-known", "health-check", "other">>,
      <<"users">>, <<"users", "10">>, <<"users", "10", "">>, <<"users", "30">>,
      <<"users", "10", "other">> }

RequestBodies == {[id |-> "30", name |-> "Added"]}

InitServer ==
    /\ app = Routes
    /\ reqs = <<>>
    /\ log = Unused
    /\ users = InitialUsers
    /\ server = [served |-> 0, failed |-> 0]
    /\ pc = "ready"
    /\ ValidateUnused
    /\ EqualUnused
    /\ ChildUnused
    /\ RunUnused
    /\ RefUnused
    /\ CallUnused
    /\ BodyUnused

(* The next request arrives once the one before is answered. *)
Receive ==
    /\ server.served < MaxRequests
    /\ IF reqs = <<>> THEN TRUE ELSE reqs[1].phase = "responded"
    /\ \E method \in Methods, path \in RequestPaths, body \in RequestBodies :
          reqs' = <<[phase |-> "received", method |-> method, path |-> path,
                     body |-> body, before |-> users]>>
    /\ UNCHANGED <<app, log, users, server, serverOthers>>

(* The router runs the handler of the request. *)
Handle ==
    /\ reqs # <<>>
    /\ reqs[1].phase = "received"
    /\ LET r == Router(reqs[1], users)
       IN /\ users' = r.users
          /\ reqs' = <<[phase |-> "settled", method |-> reqs[1].method,
                        path |-> reqs[1].path, body |-> reqs[1].body,
                        before |-> reqs[1].before, outcome |-> r.outcome]>>
    /\ UNCHANGED <<app, log, server, serverOthers>>

(* laminar answers: a response, also for an error. *)
Answer ==
    /\ reqs # <<>>
    /\ reqs[1].phase = "settled"
    /\ reqs' = <<[phase |-> "responded", method |-> reqs[1].method,
                  path |-> reqs[1].path, body |-> reqs[1].body,
                  before |-> reqs[1].before, outcome |-> reqs[1].outcome,
                  response |-> ToResponse(reqs[1].outcome)]>>
    /\ server' = [server EXCEPT !.served = @ + 1,
                                !.failed = IF reqs[1].outcome.kind = "returned"
                                           THEN @ ELSE @ + 1]
    /\ UNCHANGED <<app, log, users, serverOthers>>

NextServer == Receive \/ Handle \/ Answer

SpecServer == InitServer /\ [][NextServer]_vars

(* A request received is routed, handled and answered without waiting. *)
SpecServerFair == SpecServer /\ WF_vars(Handle) /\ WF_vars(Answer)

(***************************************************************************)
(* Specification: one call of a response helper.  A response is an object  *)
(* {body, status, headers}, any of them possibly left out; the helpers     *)
(* build a new object from the spread of their argument.                   *)
(***************************************************************************)
(* { ...{props}, key: val }: the value replaces the one of an existing     *)
(* key, in its place; a new key comes last.                                *)
SetProp(props, key, val) ==
    IF \E i \in 1..Len(props) : props[i][1] = key
    THEN [i \in 1..Len(props) |-> IF props[i][1] = key THEN <<key, val>> ELSE props[i]]
    ELSE Append(props, <<key, val>>)

(* ...v: the properties of an object, nothing for undefined. *)
SpreadOf(v) == IF v.t = "object" THEN v.props ELSE <<>>

(* toJson: dates become strings and undefined properties are removed. *)
toJson(v) ==
    IF v.t = "date" THEN Str(NumberToString(v.time))
    ELSE IF v.t = "object"
    THEN Obj("json", SelectSeq(v.props, LAMBDA p : p[2] # undefined))
    ELSE v

(* { ...res, status: code } *)
WithStatus(res, code) == Obj("response", SetProp(SpreadOf(res), "status", Num(code)))

(* Slip: the constant is spread first, so the caller's header wins. *)
WithContentType_callerWins(res, type) ==
    Obj("response",
        SetProp(SpreadOf(res), "headers",
                Obj("headers",
                    IF Get(Get(res, "headers"), "content-type") = undefined
                    THEN <<<<"content-type", Str(type)>>>> \o SpreadOf(Get(res, "headers"))
                    ELSE SpreadOf(Get(res, "headers")))))

(* { ...res, headers: { ...res.headers, 'content-type': type } } *)
WithContentType(res, type) ==
    Obj("response",
        SetProp(SpreadOf(res), "headers",
                Obj("headers",
                    SetProp(SpreadOf(Get(res, "headers")), "content-type", Str(type)))))

ok(res) == WithStatus(res, 200)

notFound(res) == WithStatus(res, 404)

internalServerError(res) == WithStatus(res, 500)

(* json also converts the body. *)
json(res) ==
    LET converted == Obj("response", SetProp(SpreadOf(res), "body", toJson(Get(res, "body"))))
    IN WithContentType(converted, "application/json")

text(res) == WithContentType(res, "text/plain")

html(res) == WithContentType(res, "text/html")

(* The argument { body, headers } of the combined helpers: headers = {}    *)
(* when the caller passes none.                                            *)
BodyAndHeaders(res) ==
    Obj("argument",
        << <<"body", Get(res, "body")>>,
           <<"headers", IF Get(res, "headers") = undefined THEN Obj("headers", <<>>)
                        ELSE Get(res, "headers")>> >>)

jsonOk(res) == json(ok(BodyAndHeaders(res)))

jsonNotFound(res) == json(notFound(BodyAndHeaders(res)))

textOk(res) == text(ok(BodyAndHeaders(res)))

htmlInternalServerError(res) == html(internalServerError(BodyAndHeaders(res)))

StatusHelpers == {"ok", "notFound", "internalServerError"}
TypeHelpers == {"json", "text", "html"}
CombinedHelpers == {"jsonOk", "jsonNotFound", "textOk", "htmlInternalServerError"}

Apply(name, res) ==
    CASE name = "ok" -> ok(res)
      [] name = "notFound" -> notFound(res)
      [] name = "internalServerError" -> internalServerError(res)
      [] name = "json" -> json(res)
      [] name = "text" -> text(res)
      [] name = "html" -> html(res)
      [] name = "jsonOk" -> jsonOk(res)
      [] name = "jsonNotFound" -> jsonNotFound(res)
      [] name = "textOk" -> textOk(res)
      [] name = "htmlInternalServerError" -> htmlInternalServerError(res)

(* The properties a caller may put in a response, each one or absent. *)
ResponseBodies == {<<>>, <<<<"body", Str("x")>>>>,
                   <<<<"body", Obj("body", << <<"a", Num(1)>>, <<"b", undefined>> >>)>>>>}
ResponseStatuses == {<<>>, <<<<"status", Num(500)>>>>}
ResponseHeaders ==
    {<<>>} \cup
    { <<<<"headers", Obj("headers", hs)>>>> :
        hs \in { <<>>,
                 << <<"content-type", Str("text/html")>> >>,
                 << <<"x-request", Str("1")>> >>,
                 << <<"content-type", Str("text/csv")>>, <<"x-request", Str("1")>> >> } }
ResponseExtras == {<<>>, <<<<"cookies", Str("c")>>>>}

Responses ==
    { Obj("res", b \o s \o h \o e) :
        b \in ResponseBodies, s \in ResponseStatuses, h \in ResponseHeaders,
        e \in ResponseExtras }

InitResponse ==
    /\ pc = "ready"
    /\ applied \in [name : StatusHelpers \cup TypeHelpers \cup CombinedHelpers, res : Responses]
    /\ answer = undefined
    /\ stream = Unused
    /\ task = Unused
    /\ ValidateUnused
    /\ EqualUnused
    /\ ChildUnused
    /\ RunUnused
    /\ RefUnused
    /\ ServerUnused

ApplyHelper ==
    /\ pc = "ready"
    /\ answer' = Apply(applied.name, applied.res)
    /\ pc' = "done"
    /\ UNCHANGED <<applied, callOthers>>

NextResponse == ApplyHelper

SpecResponse == InitResponse /\ [][NextResponse]_vars

(***************************************************************************)
(* Specification: one call of redirect(location, options).                 *)
(***************************************************************************)
(* { ...props, ...more }: the keys of more, one after the other. *)
RECURSIVE SpreadInto(_, _)
SpreadInto(props, more) ==
    IF more = <<>> THEN props
    ELSE SpreadInto(SetProp(props, more[1][1], more[1][2]), Tail(more))

(* A destructured option with a default: the default stands in for         *)
(* undefined, whether the key is absent or not.                            *)
OrDefault(v, default) == IF v = undefined THEN default ELSE v

redirect(location, opts) ==
    LET status == OrDefault(Get(opts, "status"), Num(302))
        headers == Get(opts, "headers")
        body == OrDefault(Get(opts, "body"), Str("Redirecting to " \o location))
    IN Obj("response",
           << <<"body", body>>,
              <<"status", status>>,
              <<"headers",
                Obj("headers",
                    SpreadInto(<< <<"content-type", Str("text/plain; charset=utf-8")>>,
                                  <<"location", Str(location)>> >>,
                               SpreadOf(headers)))>> >>)

Locations == {"http://localhost:8092/destination", "/other"}

RedirectStatuses == {<<>>, <<<<"status", undefined>>>>, <<<<"status", Num(301)>>>>}
RedirectBodies == {<<>>, <<<<"body", Str("moved")>>>>}
RedirectHeaders ==
    {<<>>} \cup
    { <<<<"headers", Obj("headers", hs)>>>> :
        hs \in { <<>>,
                 << <<"Authorization", Str("Bearer 123")>> >>,
                 << <<"content-type", Str("text/html")>> >>,
                 << <<"location", Str("/elsewhere")>> >> } }

RedirectOptions ==
    {undefined} \cup
    { Obj("options", s \o h \o b) :
        s \in RedirectStatuses, h \in RedirectHeaders, b \in RedirectBodies }

InitRedirect ==
    /\ pc = "ready"
    /\ applied \in [location : Locations, options : RedirectOptions]
    /\ answer = undefined
    /\ stream = Unused
    /\ task = Unused
    /\ ValidateUnused
    /\ EqualUnused
    /\ ChildUnused
    /\ RunUnused
    /\ RefUnused
    /\ ServerUnused

CallRedirect ==
    /\ pc = "ready"
    /\ answer' = redirect(applied.location, applied.options)
    /\ pc' = "done"
    /\ UNCHANGED <<applied, callOthers>>

NextRedirect == CallRedirect

SpecRedirect == InitRedirect /\ [][NextRedirect]_vars

(***************************************************************************)
(* Specification: one call of file(filename, options).  What the file      *)
(* system and the imported helpers answer is an input of the call: the     *)
(* size and the modification time of statSync, the type found by lookup    *)
(* (or none), and the range parseRange yields (or none).  A Range header   *)
(* is the sequence of its parts, so that its beginning can be tested.      *)
(***************************************************************************)
(* A header value made of the given parts. *)
Header(parts) == [t |-> "string", parts |-> parts]

(* Slip: any Range header counts, whatever its unit. *)
StartsWithBytes_anyUnit(range) == range # undefined

(* range?.match(/^bytes=/) *)
StartsWithBytes(range) ==
    /\ range # undefined
    /\ Len(range.parts) >= 2
    /\ range.parts[1] = "bytes"
    /\ range.parts[2] = "="

(* createReadStream(filename, range) *)
ReadStream(range) == [t |-> "stream", range |-> range]

file(in) ==
    LET headers == Get(in.options, "headers")
        status == OrDefault(Get(in.options, "status"), Num(200))
        incommingMessage == Get(in.options, "incommingMessage")
        contentType == IF ToBoolean(in.lookup) THEN in.lookup ELSE Str("text/plain")
        lastModified == Str(in.mtime)
        range == IF incommingMessage = undefined THEN undefined ELSE incommingMessage.range
        hasRange == StartsWithBytes(range)
    IN IF hasRange
       THEN IF in.parsed # undefined
            THEN Obj("response",
                     << <<"status", Num(206)>>,
                        <<"body", ReadStream(in.parsed)>>,
                        <<"headers",
                          Obj("headers",
                              SpreadInto(
                                  << <<"content-type", contentType>>,
                                     <<"accept-ranges", Str("bytes")>>,
                                     <<"last-modified", lastModified>>,
                                     <<"content-range",
                                       Str("bytes " \o NumberToString(in.parsed.start) \o "-"
                                           \o NumberToString(in.parsed.end) \o "/"
                                           \o NumberToString(in.size))>> >>,
                                  SpreadOf(headers)))>> >>)
            ELSE Obj("response",
                     << <<"status", Num(416)>>,
                        <<"headers",
                          Obj("headers",
                              << <<"accept-ranges", Str("bytes")>>,
                                 <<"Content-Range",
                                   Str("bytes */" \o NumberToString(in.size))>> >>)>>,
                        <<"body", Str("")>> >>)
       ELSE Obj("response",
                << <<"status", status>>,
                   <<"body", ReadStream(undefined)>>,
                   <<"headers",
                     Obj("headers",
                         SpreadInto(
                             (IF incommingMessage # undefined
                              THEN << <<"accept-ranges", Str("bytes")>> >> ELSE <<>>)
                             \o << <<"content-type", contentType>>,
                                   <<"content-length", Num(in.size)>>,
                                   <<"last-modified", lastModified>> >>,
                             SpreadOf(headers)))>> >>)

MaxSize == 3

FileSizes == {0, MaxSize}
LookupResults == {Bool(FALSE), Str("text/html")}
ModificationTimes == {"2020-01-01T00:00:00.000Z"}

(* The Range header of the request: none, bytes ranges, another unit,      *)
(* another case, no '='.                                                   *)
RangeHeaders ==
    { undefined,
      Header(<<"bytes", "=", "0-1">>),
      Header(<<"bytes", "=", "9-">>),
      Header(<<"items", "=", "0-1">>),
      Header(<<"Bytes", "=", "0-1">>),
      Header(<<"bytes", " ", "0-1">>) }

IncommingMessages == { [t |-> "message", range |-> r] : r \in RangeHeaders }

ParsedRanges == {undefined, [start |-> 0, end |-> 1]}

FileStatuses == {<<>>, <<<<"status", Num(404)>>>>, <<<<"status", Num(206)>>>>}
FileHeaders ==
    {<<>>} \cup
    { <<<<"headers", Obj("headers", hs)>>>> :
        hs \in { << <<"x-request", Str("1")>> >>,
                 << <<"content-length", Num(1)>> >>,
                 << <<"content-range", Str("bytes 0-0/1")>> >> } }
FileMessages == {<<>>} \cup { <<<<"incommingMessage", m>>>> : m \in IncommingMessages }

FileOptions ==
    { Obj("options", h \o s \o m) :
        h \in FileHeaders, s \in FileStatuses, m \in FileMessages }

InitFile ==
    /\ pc = "ready"
    /\ applied \in [options : FileOptions, size : FileSizes, lookup : LookupResults,
                    mtime : ModificationTimes, parsed : ParsedRanges]
    /\ answer = undefined
    /\ stream = Unused
    /\ task = Unused
    /\ ValidateUnused
    /\ EqualUnused
    /\ ChildUnused
    /\ RunUnused
    /\ RefUnused
    /\ ServerUnused

CallFile ==
    /\ pc = "ready"
    /\ answer' = file(applied)
    /\ pc' = "done"
    /\ UNCHANGED <<applied, callOthers>>

NextFile == CallFile

SpecFile == InitFile /\ [][NextFile]_vars

(***************************************************************************)
(* Specification: one call of flatten(results) on lists that live in       *)
(* memory.  The caller holds two arrays and the module's NoErrors; results *)
(* is a list of references to them, the same array possibly more than      *)
(* once.                                                                   *)
(***************************************************************************)
MaxResults == 3

(* The call that owns the caller's arrays, and the call of flatten. *)
Holder == 1
Flattener == 2

ErrorItems == {"e1", "e2"}

RECURSIVE ListsUpTo(_, _)
(* The lists of at most n items. *)
ListsUpTo(items, n) ==
    IF n = 0 THEN {<<>>}
    ELSE LET shorter == ListsUpTo(items, n - 1)
         IN shorter \cup { Append(l, e) : l \in {s \in shorter : Len(s) = n - 1}, e \in items }

HeldRefs == {NoErrorsRef, [run |-> Holder, k |-> 1], [run |-> Holder, k |-> 2]}

InitFlatten ==
    /\ pc = "ready"
    /\ \E first, second \in ListsUpTo(ErrorItems, MaxLen) :
          mem = [NoErrors |-> <<>>,
                 arrays |-> [r \in {Holder, Flattener} |->
                               IF r = Holder THEN <<first, second>> ELSE <<>>]]
    /\ \E results \in ListsUpTo(HeldRefs, MaxResults) :
          runs = [results |-> results, before |-> mem, ret |-> NoErrorsRef]
    /\ ValidateUnused
    /\ EqualUnused
    /\ ChildUnused
    /\ RefUnused
    /\ ServerUnused
    /\ CallUnused
    /\ BodyUnused

Flatten ==
    /\ pc = "ready"
    /\ LET a == flattenMem(Flattener, runs.results, mem)
       IN /\ mem' = a.mem
          /\ runs' = [runs EXCEPT !.ret = a.ret]
    /\ pc' = "done"
    /\ UNCHANGED <<schema, value, options, errors, called, equalVars, childVars,
                   refVars, serverVars, callVars, bodyVars>>

NextFlatten == Flatten

SpecFlatten == InitFlatten /\ [][NextFlatten]_vars

(***************************************************************************)
(* Specification: one call of isUniqueWith(compare, array).  The elements  *)
(* are objects: each has its own identity besides the value the comparator *)
(* looks at.  The comparators are named; they need not be symmetric or     *)
(* transitive.                                                             *)
(***************************************************************************)
MaxItems == 3

Comparators == {"equal", "sameParity", "lessThan", "near", "always", "never"}

(* compare(a, b) *)
Compare(name, a, b) ==
    CASE name = "equal" -> a.v = b.v
      [] name = "sameParity" -> a.v % 2 = b.v % 2
      [] name = "lessThan" -> a.v < b.v
      [] name = "near" -> a.v - b.v \in {-1, 0, 1}
      [] name = "always" -> TRUE
      [] name = "never" -> FALSE

(* items.some(prev => compare(prev, item)) *)
Some(name, items, item) == \E i \in 1..Len(items) : Compare(name, items[i], item)

(* Slip: the comparator is called with the item first. *)
UniqueStep_itemFirst(name, items, item) ==
    IF ~(\E i \in 1..Len(items) : Compare(name, item, items[i]))
    THEN Append(items, item) ELSE items

(* The body of the loop: the item is pushed unless some kept item compares *)
(* equal to it.                                                            *)
UniqueStep(name, items, item) ==
    IF ~Some(name, items, item) THEN Append(items, item) ELSE items

RECURSIVE UniqueInto(_, _, _)
(* The loop over array, from the items kept so far. *)
UniqueInto(name, items, array) ==
    IF array = <<>> THEN items
    ELSE UniqueInto(name, UniqueStep(name, items, Head(array)), Tail(array))

isUniqueWith(name, array) == UniqueInto(name, <<>>, array)

ItemValues == {1, 2, 3}

(* The arrays of at most MaxItems objects, each with its place as identity. *)
ItemArrays ==
    { [i \in 1..Len(vs) |-> [v |-> vs[i], id |-> i]] : vs \in ListsUpTo(ItemValues, MaxItems) }

InitUnique ==
    /\ pc = "ready"
    /\ applied \in [compare : Comparators, array : ItemArrays]
    /\ answer = <<>>
    /\ stream = Unused
    /\ task = Unused
    /\ ValidateUnused
    /\ EqualUnused
    /\ ChildUnused
    /\ RunUnused
    /\ RefUnused
    /\ ServerUnused

CallIsUniqueWith ==
    /\ pc = "ready"
    /\ answer' = isUniqueWith(applied.compare, applied.array)
    /\ pc' = "done"
    /\ UNCHANGED <<applied, callOthers>>

NextUnique == CallIsUniqueWith

SpecUnique == InitUnique /\ [][NextUnique]_vars

(***************************************************************************)
(* Specification: one call of parseContentType(value).  A string is the    *)
(* sequence of its characters; a word stands for a run of characters that  *)
(* are none of '/', '+', ';' and the blank.                                *)
(***************************************************************************)
MaxChars == 5

(* A string made of the given characters. *)
Text(chars) == [t |-> "text", chars |-> chars]

(* The first place from `from` on that holds one of the characters, or the *)
(* place after the last.                                                   *)
FirstOf(chars, set, from) ==
    IF \E i \in from..Len(chars) : chars[i] \in set
    THEN CHOOSE i \in from..Len(chars) :
            /\ chars[i] \in set
            /\ \A k \in from..i - 1 : chars[k] \notin set
    ELSE Len(chars) + 1

(* CONTENT_TYPE.exec(value): from the start, a type (characters other than *)
(* '/', one or more), a '/', a subtype (characters other than '+' and ';', *)
(* one or more), then possibly a suffix ('+' and characters other than     *)
(* ';', one or more) and possibly ';' with anything after it; the result   *)
(* is the groups type, subtype and suffix, or null.  Every group is greedy *)
(* and excludes the character that follows it, so each runs up to the      *)
(* first such character; a group that did not take part is the empty       *)
(* string here (undefined in the code, as falsy).                          *)
Exec(chars) ==
    LET slash == FirstOf(chars, {"/"}, 1)
        stop == FirstOf(chars, {"+", ";"}, slash + 1)
        semi == FirstOf(chars, {";"}, stop + 1)
    IN IF slash = 1 \/ slash > Len(chars) \/ stop = slash + 1
       THEN null
       ELSE [type |-> SubSeq(chars, 1, slash - 1),
             subtype |-> SubSeq(chars, slash + 1, stop - 1),
             suffix |-> IF stop <= Len(chars) /\ chars[stop] = "+" /\ semi > stop + 1
                        THEN SubSeq(chars, stop, semi - 1)
                        ELSE <<>>]

RECURSIVE TrimStart(_)
TrimStart(chars) ==
    IF chars # <<>> /\ Head(chars) = " " THEN TrimStart(Tail(chars)) ELSE chars

RECURSIVE TrimEnd(_)
TrimEnd(chars) ==
    IF chars # <<>> /\ chars[Len(chars)] = " "
    THEN TrimEnd(SubSeq(chars, 1, Len(chars) - 1)) ELSE chars

(* String.prototype.trim *)
Trim(chars) == TrimEnd(TrimStart(chars))

(* toLowerCase, on the characters and words of the model. *)
LowerChar(c) ==
    CASE c = "J" -> "j"
      [] c = "Application" -> "application"
      [] c = "JSON" -> "json"
      [] OTHER -> c

ToLowerCase(chars) == [i \in 1..Len(chars) |-> LowerChar(chars[i])]

(* Slip: the suffix is not looked at. *)
parseContentType_subtypeOnly(v) ==
    LET parts == Exec(v.chars)
    IN IF parts = null THEN null
       ELSE Text(ToLowerCase(Trim(parts.type) \o <<"/">> \o Trim(parts.subtype)))

parseContentType(v) ==
    LET parts == Exec(v.chars)
    IN IF parts = null THEN null
       ELSE Text(ToLowerCase(
                Trim(parts.type) \o <<"/">> \o
                (IF parts.suffix # <<>> THEN Trim(Tail(parts.suffix))
                 ELSE Trim(parts.subtype))))

Chars == {"a", "J", "/", "+", ";", " "}

(* Headers seen in requests, besides every string of up to MaxChars        *)
(* characters.                                                             *)
KnownContentTypes ==
    { <<"application", "/", "vnd.api", "+", "json", ";", " ", "charset=utf-8">>,
      <<"Application", "/", "JSON">>,
      <<"text", "/", "plain", ";", " ", "charset=utf-8">>,
      <<"application", "/", "x-www-form-urlencoded">>,
      <<"multipart", "/", "form-data", ";", " ", "boundary=x">> }

ContentTypes == { Text(chars) : chars \in ListsUpTo(Chars, MaxChars) \cup KnownContentTypes }

InitContentType ==
    /\ pc = "ready"
    /\ applied \in [value : ContentTypes]
    /\ answer = undefined
    /\ stream = Unused
    /\ task = Unused
    /\ ValidateUnused
    /\ EqualUnused
    /\ ChildUnused
    /\ RunUnused
    /\ RefUnused
    /\ ServerUnused

CallParseContentType ==
    /\ pc = "ready"
    /\ answer' = parseContentType(applied.value)
    /\ pc' = "done"
    /\ UNCHANGED <<applied, callOthers>>

NextContentType == CallParseContentType

SpecContentType == InitContentType /\ [][NextContentType]_vars

(***************************************************************************)
(* Specification: request(req), an async function.  parseBody decides from *)
(* the content-type header whether the stream is handed on as it is or     *)
(* read to its end by concatStream; the chunks arrive one by one while     *)
(* request() awaits the body, and the request object is built when the     *)
(* promise of parseBody is fulfilled.                                      *)
(***************************************************************************)
(* The Readable of the request, as a value. *)
TheStream == [t |-> "stream", range |-> undefined]

RECURSIVE ConcatAll(_)
(* String(await concatStream(stream)): the chunks, joined. *)
ConcatAll(chunks) ==
    IF chunks = <<>> THEN "" ELSE Head(chunks) \o ConcatAll(Tail(chunks))

(* JSON.parse(txt), for the texts of the model: a value, or a SyntaxError. *)
JsonParse(txt) ==
    CASE txt = "{\"a\":1}" -> [threw |-> FALSE, body |-> Obj("parsed", << <<"a", Num(1)>> >>)]
      [] txt = "1" -> [threw |-> FALSE, body |-> Num(1)]
      [] OTHER -> [threw |-> TRUE, body |-> undefined]

(* !contentType: no header, or an empty one. *)
NoContentType(contentType) ==
    IF contentType = undefined THEN TRUE ELSE contentType.chars = <<>>

(* Slip: every content type that parses is read as text. *)
BodyKind_allText(contentType) ==
    IF NoContentType(contentType) THEN "stream"
    ELSE IF parseContentType(contentType) = null THEN "stream" ELSE "text"

(* The branch of parseBody: lines 19 to 33. *)
BodyKind(contentType) ==
    IF NoContentType(contentType) THEN "stream"
    ELSE LET type == parseContentType(contentType)
         IN IF type = null THEN "stream"
            ELSE IF type = Text(<<"application", "/", "json">>) THEN "json"
            ELSE IF type = Text(<<"application", "/", "x-www-form-urlencoded">>) THEN "form"
            ELSE IF Len(type.chars) >= 2 /\ SubSeq(type.chars, 1, 2) = <<"text", "/">>
            THEN "text"
            ELSE "stream"

(* What the branch makes of the text read. *)
Parsed(kind, txt) ==
    CASE kind = "json" -> JsonParse(txt)
      [] kind = "form" -> [threw |-> FALSE, body |-> [t |-> "URLSearchParams", text |-> txt]]
      [] kind = "text" -> [threw |-> FALSE, body |-> Str(txt)]

RequestContentTypes ==
    { undefined,
      Text(<<>>),
      Text(<<"json">>),
      Text(<<"application", "/", "json">>),
      Text(<<"application", "/", "vnd.api", "+", "json", ";", " ", "charset=utf-8">>),
      Text(<<"Application", "/", "JSON">>),
      Text(<<"application", "/", "x-www-form-urlencoded">>),
      Text(<<"text", "/", "plain", ";", " ", "charset=utf-8">>),
      Text(<<"text", "/", "html">>),
      Text(<<"multipart", "/", "form-data", ";", " ", "boundary=x">>),
      Text(<<"application", "/", "text">>) }

(* The body the client sends, in the chunks it arrives in. *)
SentBodies == { <<>>, <<"1">>, <<"{\"a\"", ":1}">>, <<"a=1", "&b=2">> }

InitBody ==
    /\ pc = "ready"
    /\ \E sent \in SentBodies :
          stream = [sent |-> sent, chunks |-> sent, read |-> <<>>, ended |-> FALSE,
                    readers |-> 0]
    /\ \E contentType \in RequestContentTypes :
          task = [at |-> "start", contentType |-> contentType, body |-> undefined,
                  request |-> undefined]
    /\ ValidateUnused
    /\ EqualUnused
    /\ ChildUnused
    /\ RunUnused
    /\ RefUnused
    /\ ServerUnused
    /\ CallUnused

(* request() calls parseBody(req, req.headers['content-type']) and awaits  *)
(* it: the promise is fulfilled with the stream at once, or concatStream    *)
(* starts to read.                                                         *)
ParseBody ==
    /\ task.at = "start"
    /\ IF BodyKind(task.contentType) = "stream"
       THEN /\ task' = [task EXCEPT !.at = "parsed", !.body = TheStream]
            /\ UNCHANGED stream
       ELSE /\ task' = [task EXCEPT !.at = "reading"]
            /\ stream' = [stream EXCEPT !.readers = @ + 1]
    /\ UNCHANGED <<pc, bodyOthers>>

(* A chunk arrives and concatStream keeps it. *)
ReadChunk ==
    /\ task.at = "reading"
    /\ stream.chunks # <<>>
    /\ stream' = [stream EXCEPT !.chunks = Tail(@), !.read = Append(@, Head(stream.chunks))]
    /\ UNCHANGED <<pc, task, bodyOthers>>

(* The stream ends: concatStream resolves, the text is parsed, and the     *)
(* promise of parseBody is fulfilled with the body or rejected.            *)
EndOfStream ==
    /\ task.at = "reading"
    /\ stream.chunks = <<>>
    /\ stream' = [stream EXCEPT !.ended = TRUE]
    /\ LET p == Parsed(BodyKind(task.contentType), ConcatAll(stream.read))
       IN task' = IF p.threw THEN [task EXCEPT !.at = "rejected"]
                  ELSE [task EXCEPT !.at = "parsed", !.body = p.body]
    /\ UNCHANGED <<pc, bodyOthers>>

(* request() resumes after the await and returns the request object. *)
BuildRequest ==
    /\ task.at = "parsed"
    /\ task' = [task EXCEPT !.at = "built",
                            !.request = [Laminar |-> TRUE, body |-> task.body,
                                         headers |-> task.contentType]]
    /\ pc' = "done"
    /\ UNCHANGED <<stream, bodyOthers>>

NextBody == ParseBody \/ ReadChunk \/ EndOfStream \/ BuildRequest

SpecBody == InitBody /\ [][NextBody]_vars

(***************************************************************************)
(* Specification: validations whose callers write to the lists they        *)
(* received.  The validations are those of SpecRuns; a caller that has its *)
(* list may push an error of its own onto it, once.                        *)
(***************************************************************************)
(* The error a caller pushes. *)
Pushed == [code |-> "pushed", name |-> "caller", param |-> undefined]

(* errors.push(...) by the caller of validation r, on the list returned. *)
Mutate(r) ==
    /\ runs[r].state = "returned"
    /\ Deref(runs[r].ret, mem) = runs[r].out
    /\ mem' = Store(runs[r].ret, Append(Deref(runs[r].ret, mem), Pushed), mem)
    /\ UNCHANGED <<runs, schema, options, runOthers>>

NextFresh == \E r \in RunIds : Call(r) \/ CallValidator(r) \/ Return(r) \/ Mutate(r)

SpecFresh == InitRuns /\ [][NextFresh]_vars

(***************************************************************************)
(* Properties of validateSchema                                            *)
(***************************************************************************)
(* A Schema Object: a keyword mapping, as opposed to a boolean schema. *)
IsSchemaObject(s) == s.t = "object"

(* What the i-th registered validator returns on the arguments of the call. *)
Returned(i) == Invoke(options.validators[i], schema, value, options)

(* The number of errors of the validators before the i-th. *)
Offset(i) ==
    LET Sum[k \in 0..Len(options.validators)] ==
            IF k = 0 THEN 0 ELSE Sum[k - 1] + Len(Returned(k))
    IN Sum[i - 1]

(* C1: for every value and every options, validateSchema(true, v, options) *)
(* returns an empty list and invokes no validator.                         *)
C1_TrueIsValid ==
    (pc = "done" /\ schema = Bool(TRUE)) => (errors = <<>> /\ called = <<>>)

C1_Witness ==
    /\ pc = "done"
    /\ schema = Bool(TRUE)
    /\ \E i \in 1..Len(options.validators) : Returned(i) # <<>>

(* C2: validateSchema(false, v, options) returns exactly one error, with   *)
(* code "false", name options.name and param false.                        *)
C2_FalseIsOneError ==
    (pc = "done" /\ schema = Bool(FALSE)) =>
        /\ Len(errors) = 1
        /\ errors[1].code = "false"
        /\ errors[1].name = options.name
        /\ errors[1].param = Bool(FALSE)
        /\ DOMAIN errors[1] = {"code", "name", "param"}

C2_Witness ==
    /\ pc = "done"
    /\ schema = Bool(FALSE)
    /\ options.name = "value"
    /\ errors # <<>>

(* C3: for a Schema Object the list returned is the concatenation of the   *)
(* validators' lists in registration order: the j-th error of validator i  *)
(* sits right after all errors of the validators before i and the j - 1    *)
(* errors of i before it, and nothing else is in the list.                 *)
C3_ConcatenatedInOrder ==
    (pc = "done" /\ IsSchemaObject(schema)) =>
        /\ Len(errors) = Offset(Len(options.validators) + 1)
        /\ \A i \in 1..Len(options.validators) :
              \A j \in 1..Len(Returned(i)) :
                  errors[Offset(i) + j] = Returned(i)[j]

C3_Witness ==
    /\ pc = "done"
    /\ IsSchemaObject(schema)
    /\ Len(options.validators) >= 2
    /\ Len(Returned(1)) >= 2
    /\ Returned(2) # <<>>
    /\ Returned(1)[1] # Returned(2)[1]

(* C4: no short-circuiting: for a Schema Object every registered validator *)
(* is invoked exactly once, also after an earlier one reported errors, and *)
(* the list returned has as many errors as the validators reported.        *)
C4_NoShortCircuit ==
    (pc = "done" /\ IsSchemaObject(schema)) =>
        /\ \A i \in 1..Len(options.validators) :
              Cardinality({k \in 1..Len(called) : called[k].validator = i}) = 1
        /\ Len(called) = Len(options.validators)
        /\ Len(errors) = Offset(Len(called) + 1)

C4_Witness ==
    /\ pc = "done"
    /\ IsSchemaObject(schema)
    /\ Len(called) >= 2
    /\ called[1].returned # <<>>
    /\ called[2].returned # <<>>

(* C5: for a schema that is neither a boolean nor a Schema Object (null,   *)
(* undefined, a number, a string) the list returned is empty for every     *)
(* value, whatever the registered validators would return.                 *)
C5_NonSchemaIsValid ==
    (pc = "done" /\ schema.t \in {"null", "undefined", "number", "string"}) =>
        errors = <<>>

(* C6: absence of a keyword never produces an error: for a Schema Object   *)
(* with none of the registered keywords, and validators that report        *)
(* nothing when their keyword is absent, the list returned is empty.       *)
C6_AbsentKeywordNoError ==
    ( /\ pc = "done"
      /\ IsSchemaObject(schema)
      /\ \A i \in 1..Len(options.validators) :
            /\ options.validators[i].keyword \in Keywords
            /\ options.validators[i].keyword \notin Range(ObjectKeys(schema)) )
    => errors = <<>>

C6_Witness ==
    /\ pc = "done"
    /\ schema = Obj("schema", << <<"x-unknown", Num(1)>> >>)
    /\ Len(options.validators) >= 2
    /\ \A i \in 1..Len(options.validators) :
          /\ options.validators[i].keyword \in Keywords
          /\ value.t # options.validators[i].accepts
    /\ Len(called) = Len(options.validators)

(***************************************************************************)
(* Properties of isEqual                                                   *)
(***************************************************************************)
(* The keys of an object, as a set. *)
KeySet(v) == Range(ObjectKeys(v))

(* The two objects have pairwise isEqual values at the keys of either. *)
PairwiseEqual(x, y) ==
    \A k \in KeySet(x) \cup KeySet(y) : isEqual(Get(x, k), Get(y, k))

(* C7: key order is irrelevant: two non-array objects with the same set of *)
(* keys and pairwise isEqual values are isEqual, whatever the insertion    *)
(* order of their keys.                                                    *)
C7_KeyOrderIrrelevant ==
    ( /\ pc = "done"
      /\ lhs.t = "object"
      /\ rhs.t = "object"
      /\ KeySet(lhs) = KeySet(rhs)
      /\ PairwiseEqual(lhs, rhs) )
    => equal = TRUE

C7_Witness ==
    /\ pc = "done"
    /\ lhs.t = "object"
    /\ rhs.t = "object"
    /\ lhs.ref # rhs.ref
    /\ KeySet(lhs) = {"a", "b"}
    /\ KeySet(rhs) = {"a", "b"}
    /\ ObjectKeys(lhs) # ObjectKeys(rhs)
    /\ Get(lhs, "a").t = "object"
    /\ PairwiseEqual(lhs, rhs)
    /\ equal = TRUE

(* C8: for two non-array, non-Date objects isEqual is true if and only if  *)
(* they have exactly the same set of keys and isEqual values at every key; *)
(* in particular it is false when b has a key that a does not have.        *)
C8_ObjectsStructural ==
    (pc = "done" /\ lhs.t = "object" /\ rhs.t = "object") =>
        (equal = TRUE <=> (KeySet(lhs) = KeySet(rhs) /\ PairwiseEqual(lhs, rhs)))

(* C9: two arrays are isEqual if and only if they have the same length and *)
(* isEqual elements at every index; an array never equals a non-array      *)
(* object; and a value equals null or undefined only if both are that very *)
(* value.                                                                  *)
C9_ArraysElementWise ==
    pc = "done" =>
        /\ (IsArray(lhs) /\ IsArray(rhs)) =>
              (equal = TRUE <=>
                  /\ Len(lhs.items) = Len(rhs.items)
                  /\ \A i \in 1..Len(lhs.items) : isEqual(lhs.items[i], rhs.items[i]))
        /\ (IsArray(lhs) /\ rhs.t \in {"object", "date"}) => equal = FALSE
        /\ (lhs.t \in {"object", "date"} /\ IsArray(rhs)) => equal = FALSE
        /\ (lhs.t \in {"null", "undefined"} \/ rhs.t \in {"null", "undefined"}) =>
              (equal = TRUE <=> lhs = rhs)

C9_Witness ==
    /\ pc = "done"
    /\ IsArray(lhs)
    /\ IsArray(rhs)
    /\ lhs.ref # rhs.ref
    /\ Len(lhs.items) = 2
    /\ Len(rhs.items) = 2
    /\ IsArray(lhs.items[1])
    /\ lhs.items[2].t = "object"
    /\ equal = TRUE

(***************************************************************************)
(* Properties of childOptions                                              *)
(***************************************************************************)
(* The text of a key of ChildKeys, written out. *)
KeyText(key) ==
    CASE key = Num(0) -> "0"
      [] key = Num(10) -> "10"
      [] key = Str("items") -> "items"
      [] key = Str("a") -> "a"

(* C10: childOptions(name, options) returns a new object whose name is     *)
(* options.name + "." + name and whose other fields are those of options,  *)
(* and leaves options as it was: at every depth the child's name is the    *)
(* parent's extended by the key, and the root's options are as handed in.  *)
C10_ChildOptionsDerived ==
    /\ heap[frames[1].options] = options
    /\ \A i \in 2..Len(frames) :
          LET parent == heap[frames[i - 1].options]
              child == heap[frames[i].options]
          IN /\ frames[i].options # frames[i - 1].options
             /\ child.name = parent.name \o "." \o KeyText(frames[i].key)
             /\ DOMAIN child = DOMAIN parent
             /\ \A f \in DOMAIN parent \ {"name"} : child[f] = parent[f]

C10_Witness ==
    /\ Len(frames) = 3
    /\ options.name = "value"
    /\ options.validators # <<>>
    /\ heap[frames[3].options].name = "value.items.10"
    /\ heap[frames[2].options].name = "value.items"
    /\ heap[frames[1].options].name = "value"

(* The dotted path of the node reached from root through keys. *)
PathName(root, keys) ==
    LET Path[i \in 0..Len(keys)] ==
            IF i = 0 THEN root ELSE Path[i - 1] \o "." \o KeyText(keys[i])
    IN Path[Len(keys)]

(* C11: path correctness: the options in force after descending from the   *)
(* root through k1, ..., kn carry the name "value.k1.....kn" (the root's   *)
(* name extended by the keys), every enclosing node keeps its own path     *)
(* whatever its children and their siblings did, and an error raised at a  *)
(* node carries the path of that node.                                     *)
C11_PathCorrect ==
    /\ \A i \in 1..Len(frames) :
          heap[frames[i].options].name =
              PathName(options.name, KeysOf(SubSeq(frames, 1, i)))
    /\ \A i \in 1..Len(errors) : errors[i].name = PathName(options.name, at)

C11_Witness ==
    /\ options.name = "value"
    /\ at = <<Str("items"), Num(0)>>
    /\ schema # Bool(FALSE)
    /\ Len(errors) = 1
    /\ errors[1].name = "value.items.0"
    /\ errors[1].code = "type"
    /\ KeysOf(frames) = <<Str("a")>>
    /\ heap[frames[2].options].name = "value.a"

(* C15: every error has exactly the fields code, name and param:           *)
(* HasError(code, name, param) is a list of one error that carries the     *)
(* three values unchanged (param undefined when it is left out), the       *)
(* errors the validators build with it reach the caller with the code,     *)
(* the name and the param they were given, and the error of a false        *)
(* schema has the same three fields and no other.                          *)
C15_ErrorShape ==
    pc = "done" =>
        /\ \A i \in 1..Len(errors) : DOMAIN errors[i] = {"code", "name", "param"}
        /\ HasError("required", options.name, undefined) =
               <<[code |-> "required", name |-> options.name, param |-> undefined]>>
        /\ \A i \in 1..Len(called) :
              \A j \in 1..Len(called[i].returned) :
                  /\ called[i].returned[j] =
                        [code |-> options.validators[called[i].validator].keyword,
                         name |-> options.name,
                         param |-> Num(j)]
                  /\ \E k \in 1..Len(errors) : errors[k] = called[i].returned[j]

C15_Witness ==
    /\ pc = "done"
    /\ Len(called) = 2
    /\ Len(errors) = 3
    /\ errors[1].code = "enum"
    /\ errors[3] = [code |-> "type", name |-> "value.items.0", param |-> Num(2)]

(* The calls that have returned. *)
ReturnedRuns == {r \in RunIds : runs[r].state = "returned"}

(* C12: idempotence: two validations of the same value against the shared  *)
(* schema, with the shared options, return identical error lists, whatever *)
(* other validations ran before or between them.                           *)
C12_Idempotent ==
    \A r1, r2 \in ReturnedRuns :
        runs[r1].value = runs[r2].value => runs[r1].out = runs[r2].out

C12_Witness ==
    /\ ReturnedRuns = RunIds
    /\ IsSchemaObject(schema)
    /\ runs[1].value = runs[2].value
    /\ runs[1].results = <<NoErrorsRef, [run |-> 1, k |-> 1]>>
    /\ Len(runs[2].out) = 1

(* C13: validateSchema never mutates its inputs: at every point of every   *)
(* call, and after it, the schema and the options (name, validators, refs, *)
(* root) are what the caller passed, the value of each call too, and every *)
(* validator called received that schema, that value and those options.    *)
C13_InputsUntouched ==
    /\ mem.schema = schema
    /\ mem.options = options
    /\ \A r \in RunIds :
          /\ mem.values[r] = runs[r].value
          /\ \A i \in 1..Len(runs[r].called) :
                /\ runs[r].called[i].validator = i
                /\ runs[r].called[i].schema = schema
                /\ runs[r].called[i].value = runs[r].value
                /\ runs[r].called[i].options = options
                /\ runs[r].called[i].options.name = options.name

C13_Witness ==
    /\ ReturnedRuns = {1}
    /\ runs[2].state = "map"
    /\ Len(runs[1].called) = 2
    /\ Len(runs[2].called) = 1
    /\ runs[1].value # runs[2].value
    /\ runs[1].out # <<>>

(* The cells every validation reads. *)
Shared(m) == <<m.schema, m.options, m.NoErrors>>

(* C14: validations sharing a schema and interleaving in any order do not  *)
(* interfere: every one returns the list validateSchema returns when run   *)
(* alone on its value, the array it returned still holds that list, and no *)
(* step writes to the schema, to the options, to NoErrors, or to an array  *)
(* of a validation other than the one taking the step.                     *)
C14_NoInterference ==
    /\ [](\A r \in ReturnedRuns :
            /\ runs[r].out = validateSchema(schema, runs[r].value, options).errors
            /\ Deref(runs[r].ret, mem) = runs[r].out)
    /\ [][/\ Shared(mem') = Shared(mem)
          /\ \A r \in RunIds :
                runs'[r] = runs[r] => mem'.arrays[r] = mem.arrays[r]]_vars

C14_Witness ==
    /\ ReturnedRuns = RunIds
    /\ IsSchemaObject(schema)
    /\ runs[1].ret = [run |-> 1, k |-> 3]
    /\ runs[2].ret = [run |-> 2, k |-> 2]
    /\ Len(mem.arrays[1][3]) = 3
    /\ runs[2].results[1] = NoErrorsRef

(* The schemas listed under allOf, and what validateSchema returns for the *)
(* i-th of them on the value and the options of the call.                  *)
AllOfItems == Get(schema, "allOf").items

SubErrors(i) == validateSchema(AllOfItems[i], value, options).errors

SubOffset(i) ==
    LET Sum[k \in 0..Len(AllOfItems)] ==
            IF k = 0 THEN 0 ELSE Sum[k - 1] + Len(SubErrors(k))
    IN Sum[i - 1]

(* C16: the errors of {allOf: [s1, ..., sn]} are the errors of             *)
(* validateSchema(s1, value), ..., validateSchema(sn, value) one after the *)
(* other in list order, those of every failing si included, and the value  *)
(* is valid exactly when every si yields no error.                         *)
C16_AllOfConcatenates ==
    pc = "done" =>
        /\ Len(errors) = SubOffset(Len(AllOfItems) + 1)
        /\ \A i \in 1..Len(AllOfItems) :
              \A j \in 1..Len(SubErrors(i)) :
                  errors[SubOffset(i) + j] = SubErrors(i)[j]
        /\ (errors = <<>>) <=> (\A i \in 1..Len(AllOfItems) : SubErrors(i) = <<>>)

C16_Witness ==
    /\ pc = "done"
    /\ Len(AllOfItems) = 2
    /\ AllOfItems[1] = Bool(FALSE)
    /\ Len(SubErrors(2)) = 2
    /\ Len(errors) = 3
    /\ errors[1].code = "false"
    /\ errors[3].code = "enum"

RECURSIVE Depth(_)
(* The nesting depth of a value: 0 for a primitive. *)
Depth(v) ==
    LET parts == IF v.t = "object" THEN {v.props[i][2] : i \in 1..Len(v.props)}
                 ELSE IF v.t = "array" THEN Range(v.items)
                 ELSE {}
        depths == {Depth(u) : u \in parts}
    IN IF v.t \notin {"object", "array"} THEN 0
       ELSE 1 + (IF depths = {} THEN 0 ELSE CHOOSE d \in depths : \A e \in depths : e <= d)

LogOf(r) == SelectSeq(log, LAMBDA call : call.req = r)

Answered == reqs # <<>> /\ reqs[1].phase = "responded"

(* The segments of the path asked for, a trailing slash left out. *)
Asked ==
    IF reqs[1].path[Len(reqs[1].path)] = ""
    THEN SubSeq(reqs[1].path, 1, Len(reqs[1].path) - 1)
    ELSE reqs[1].path

(* Whether the application registers the method on the path. *)
IsRegistered(method, segments) ==
    CASE segments = <<".well-known", "health-check">> -> method = "GET"
      [] segments \in {<<"link">>, <<"link-other">>, <<"destination">>, <<"error">>} ->
            method = "GET"
      [] segments = <<"users">> -> method = "PUT"
      [] Len(segments) = 2 /\ segments[1] = "users" ->
            method \in {"OPTIONS", "GET", "PATCH", "POST", "DELETE"}
      [] OTHER -> FALSE

PathNotFound ==
    [status |-> 404,
     body |-> [message |-> "Path " \o reqs[1].method \o " " \o PathText(reqs[1].path)
                            \o " not found"]]

KeysIn(v) == Range(ObjectKeys(v))

(* a and b have the same keys with the same values, headers compared the   *)
(* same way.                                                               *)
SameResponse(a, b) ==
    /\ KeysIn(a) = KeysIn(b)
    /\ \A k \in KeysIn(a) \ {"headers"} : Get(a, k) = Get(b, k)
    /\ KeysIn(Get(a, "headers")) = KeysIn(Get(b, "headers"))
    /\ \A h \in KeysIn(Get(a, "headers")) :
          Get(Get(a, "headers"), h) = Get(Get(b, "headers"), h)

StatusOf(name) ==
    CASE name \in {"ok", "jsonOk", "textOk"} -> Num(200)
      [] name \in {"notFound", "jsonNotFound"} -> Num(404)
      [] OTHER -> Num(500)

ContentTypeOf(name) ==
    CASE name \in {"json", "jsonOk", "jsonNotFound"} -> Str("application/json")
      [] name \in {"text", "textOk"} -> Str("text/plain")
      [] OTHER -> Str("text/html")

C24_RedirectSetsLocation ==
    pc = "done" =>
        LET opts == applied.options
        IN /\ Get(Get(answer, "headers"), "location") = Str(applied.location)
           /\ Get(answer, "status") =
                 IF Get(opts, "status") = undefined THEN Num(302) ELSE Get(opts, "status")
           /\ Get(answer, "body") =
                 IF Get(opts, "body") = undefined
                 THEN Str("Redirecting to " \o applied.location)
                 ELSE Get(opts, "body")

(***************************************************************************)
(* Properties of file                                                      *)
(***************************************************************************)
(* The Range header of the request, undefined without a request. *)
RangeOf(in) ==
    IF Get(in.options, "incommingMessage") = undefined THEN undefined
    ELSE Get(in.options, "incommingMessage").range

(* The request carries a Range header whose text begins with 'bytes='. *)
BytesRange(in) ==
    /\ RangeOf(in) # undefined
    /\ Len(RangeOf(in).parts) >= 2
    /\ SubSeq(RangeOf(in).parts, 1, 2) = <<"bytes", "=">>

RangeText(in) ==
    Str("bytes " \o NumberToString(in.parsed.start) \o "-"
        \o NumberToString(in.parsed.end) \o "/" \o NumberToString(in.size))

NoRangeText(in) == Str("bytes */" \o NumberToString(in.size))

(* The value of a header of the response unless the caller's headers carry *)
(* one of the same name, which then is the value.                          *)
Written(in, name, val) ==
    Get(Get(answer, "headers"), name) =
        OrDefault(Get(Get(in.options, "headers"), name), val)

HasHeader(response, names) ==
    \E name \in names : Get(Get(response, "headers"), name) # undefined

(* C23: whenever incommingMessage is given to file(), the response sets    *)
(* 'last-modified', 'content-type' and 'accept-ranges' in every branch (no *)
(* Range header, satisfiable range, unsatisfiable range), and sets         *)
(* 'content-range' whenever the request carried a Range header.            *)
C23_HeadersInEveryBranch ==
    (pc = "done" /\ Get(applied.options, "incommingMessage") # undefined) =>
        /\ HasHeader(answer, {"last-modified", "Last-Modified"})
        /\ HasHeader(answer, {"content-type", "Content-Type"})
        /\ HasHeader(answer, {"accept-ranges", "Accept-Ranges"})
        /\ RangeOf(applied) # undefined =>
              HasHeader(answer, {"content-range", "Content-Range"})

(***************************************************************************)
(* Properties of flatten                                                   *)
(***************************************************************************)
(* The i-th inner list as it was when flatten was called. *)
Inner(i) == Deref(runs.results[i], runs.before)

(* The number of elements of the inner lists before the i-th. *)
InnerOffset(i) ==
    LET Sum[k \in 0..Len(runs.results)] ==
            IF k = 0 THEN 0 ELSE Sum[k - 1] + Len(Inner(k))
    IN Sum[i - 1]

(* C25: flatten(results) returns a new list that is the concatenation of   *)
(* the inner lists in order: its length is the sum of the inner lengths,   *)
(* the j-th element of the i-th inner list sits at the offset of that list *)
(* plus j (so empty inner lists contribute nothing), and the input lists   *)
(* are not modified.                                                       *)
C25_FlattenConcatenates ==
    pc = "done" =>
        LET out == Deref(runs.ret, mem)
            n == Len(runs.results)
        IN /\ runs.ret \notin HeldRefs
           /\ Len(out) = InnerOffset(n + 1)
           /\ \A i \in 1..n : \A j \in 1..Len(Inner(i)) :
                 out[InnerOffset(i) + j] = Inner(i)[j]
           /\ \A ref \in HeldRefs : Deref(ref, mem) = Deref(ref, runs.before)

C25_Witness ==
    /\ pc = "done"
    /\ Len(runs.results) = 3
    /\ runs.results[1] = runs.results[3]
    /\ Inner(1) = <<"e1", "e2">>
    /\ Inner(2) = <<>>
    /\ Deref(runs.ret, mem) = <<"e1", "e2", "e1", "e2">>

(***************************************************************************)
(* Properties of isUniqueWith                                              *)
(***************************************************************************)
(* C26: the result of isUniqueWith(compare, array) is a subsequence of     *)
(* array (its elements are elements of array, in the order of array);      *)
(* compare(result[i], result[j]) is false for i < j; every element of      *)
(* array is kept or compares equal to a kept element that comes before it; *)
(* an element that repeats an earlier one (same value, comparing equal to  *)
(* it) is never kept, and the first element always is; and isUniqueWith    *)
(* applied to the result returns the result.                               *)
C26_UniqueByComparator ==
    pc = "done" =>
        LET cmp == applied.compare
            array == applied.array
            kept == {answer[i].id : i \in 1..Len(answer)}
        IN /\ \A i \in 1..Len(answer) :
                 /\ answer[i].id \in 1..Len(array)
                 /\ array[answer[i].id] = answer[i]
           /\ \A i, j \in 1..Len(answer) : i < j => answer[i].id < answer[j].id
           /\ \A i, j \in 1..Len(answer) : i < j => ~Compare(cmp, answer[i], answer[j])
           /\ \A n \in 1..Len(array) :
                 \/ n \in kept
                 \/ \E k \in kept : k < n /\ Compare(cmp, array[k], array[n])
           /\ \A m, n \in 1..Len(array) :
                 (m < n /\ array[m].v = array[n].v /\ Compare(cmp, array[m], array[n]))
                    => n \notin kept
           /\ array # <<>> => 1 \in kept
           /\ isUniqueWith(cmp, answer) = answer

C26_Witness ==
    /\ pc = "done"
    /\ applied.compare = "near"
    /\ Len(applied.array) = 3
    /\ applied.array[1].v = 1
    /\ applied.array[2].v = 2
    /\ applied.array[3].v = 3
    /\ Len(answer) = 2
    /\ answer[2].id = 3

(***************************************************************************)
(* Properties of parseContentType                                          *)
(***************************************************************************)
(* A type, a subtype or a suffix: one character or more, none of them '/', *)
(* '+', ';' or a blank.                                                    *)
IsToken(chars) == chars # <<>> /\ \A i \in 1..Len(chars) : chars[i] \notin {"/", "+", ";", " "}

(* The value has no type/subtype at all: no '/', nothing before the first  *)
(* '/', or nothing after it that could be a subtype.                       *)
NoTypeSubtype(chars) ==
    \/ \A i \in 1..Len(chars) : chars[i] # "/"
    \/ chars[1] = "/"
    \/ \E i \in 1..Len(chars) :
          /\ chars[i] = "/"
          /\ \A k \in 1..i - 1 : chars[k] # "/"
          /\ i = Len(chars) \/ chars[i + 1] \in {"+", ";"}

(* C27: for a header type/subtype[+suffix][;parameters] parseContentType   *)
(* returns the lowercased 'type/suffix' when a +suffix is present and the  *)
(* lowercased 'type/subtype' otherwise, always without the parameters; it  *)
(* returns null exactly when the value has no type/subtype; and            *)
(* 'application/vnd.api+json; charset=utf-8' gives 'application/json'.     *)
C27_ContentTypeNormalized ==
    pc = "done" =>
        LET chars == applied.value.chars
            n == Len(chars)
        IN /\ \A slash \in 2..n - 1 : \A stop \in slash + 2..n + 1 :
                 \A semi \in stop..n + 1 :
                    LET type == SubSeq(chars, 1, slash - 1)
                        subtype == SubSeq(chars, slash + 1, stop - 1)
                        suffix == SubSeq(chars, stop + 1, semi - 1)
                    IN (/\ IsToken(type)
                        /\ chars[slash] = "/"
                        /\ IsToken(subtype)
                        /\ stop = semi \/ (chars[stop] = "+" /\ IsToken(suffix))
                        /\ semi = n + 1 \/ chars[semi] = ";")
                       => answer = Text(ToLowerCase(
                                      type \o <<"/">> \o
                                      (IF stop = semi THEN subtype ELSE suffix)))
           /\ answer = null <=> NoTypeSubtype(chars)
           /\ chars = <<"application", "/", "vnd.api", "+", "json", ";", " ", "charset=utf-8">>
                 => answer = Text(<<"application", "/", "json">>)

C27_Witness ==
    /\ pc = "done"
    /\ applied.value = Text(<<"a", "/", "a", "+", "J">>)
    /\ answer = Text(<<"a", "/", "j">>)

(***************************************************************************)
(* Properties of parseBody and request                                     *)
(***************************************************************************)
(* What parseBody is to make of each content type of the model: written    *)
(* out by hand, not computed.                                              *)
ExpectedKind(contentType) ==
    CASE contentType \in { Text(<<"application", "/", "json">>),
                           Text(<<"application", "/", "vnd.api", "+", "json", ";", " ",
                                  "charset=utf-8">>),
                           Text(<<"Application", "/", "JSON">>) } -> "json"
      [] contentType = Text(<<"application", "/", "x-www-form-urlencoded">>) -> "form"
      [] contentType \in { Text(<<"text", "/", "plain", ";", " ", "charset=utf-8">>),
                           Text(<<"text", "/", "html">>) } -> "text"
      [] OTHER -> "stream"

(* The stream has not been touched. *)
Unread == stream.read = <<>> /\ stream.chunks = stream.sent /\ ~stream.ended /\ stream.readers = 0

(* The stream has been read to its end, by one reader, chunk by chunk. *)
ReadOnce == stream.read = stream.sent /\ stream.chunks = <<>> /\ stream.ended /\ stream.readers = 1

(* C28: with no content-type header, an unparseable one, or a type other   *)
(* than application/json, application/x-www-form-urlencoded and text/...,  *)
(* the body of the request is the original stream, unread; otherwise the   *)
(* stream was read to its end exactly once and the body is the parsed      *)
(* JSON, the URLSearchParams or the string of what was sent; and the       *)
(* request object is built only in a step that finds the body complete.    *)
C28_BodyBeforeRequest ==
    /\ [](LET kind == ExpectedKind(task.contentType)
              txt == ConcatAll(stream.sent)
          IN /\ kind = "stream" => Unread
             /\ task.request # undefined <=> task.at = "built"
             /\ task.at = "built" =>
                   /\ kind = "stream" => task.request.body = TheStream
                   /\ kind # "stream" => ReadOnce
                   /\ kind = "json" => task.request.body = JsonParse(txt).body
                                       /\ ~JsonParse(txt).threw
                   /\ kind = "form" =>
                         task.request.body = [t |-> "URLSearchParams", text |-> txt]
                   /\ kind = "text" => task.request.body = Str(txt))
    /\ [][task'.request # task.request =>
            /\ task.at = "parsed"
            /\ task'.request.body = task.body
            /\ ExpectedKind(task.contentType) # "stream" => ReadOnce
            /\ UNCHANGED stream]_vars

C28_Witness ==
    /\ task.at = "built"
    /\ task.contentType = Text(<<"application", "/", "vnd.api", "+", "json", ";", " ",
                                 "charset=utf-8">>)
    /\ stream.sent = <<"{\"a\"", ":1}">>
    /\ stream.read = stream.sent
    /\ task.request.body = Obj("parsed", << <<"a", Num(1)>> >>)

(* C29: isEqual is symmetric: for all values a and b, isEqual(a, b) =       *)
(* isEqual(b, a), also when a and b are objects with different key sets;   *)
(* and every value is equal to itself.                                     *)
C29_Symmetric ==
    pc = "done" =>
        /\ equal = isEqual(rhs, lhs)
        /\ isEqual(lhs, lhs) = TRUE

(***************************************************************************)
(* Properties of validations with mutating callers                         *)
(***************************************************************************)
(* The arrays the validators of validation r returned. *)
ValidatorRefs(r) == Range(runs[r].results)

(* C30: the list validateSchema returns is a freshly created list: it is   *)
(* not NoErrors, not a list a validator returned, and not the list of      *)
(* another validation; so whatever the callers push onto their lists,      *)
(* NoErrors stays empty, the lists of the validators stay what they        *)
(* returned, and validations of one value return the same errors, those of *)
(* validateSchema run alone.                                               *)
C30_FreshList ==
    /\ mem.NoErrors = <<>>
    /\ \A r \in ReturnedRuns :
          /\ runs[r].ret # NoErrorsRef
          /\ \A r2 \in RunIds : runs[r].ret \notin ValidatorRefs(r2)
          /\ \A r2 \in ReturnedRuns \ {r} : runs[r].ret # runs[r2].ret
          /\ runs[r].out = validateSchema(schema, runs[r].value, options).errors
          /\ \A r2 \in ReturnedRuns : runs[r].value = runs[r2].value => runs[r].out = runs[r2].out
    /\ \A r \in RunIds : \A i \in 1..Len(runs[r].results) :
          Deref(runs[r].results[i], mem) = runs[r].called[i].returned

C30_Witness ==
    /\ ReturnedRuns = RunIds
    /\ IsSchemaObject(schema)
    /\ runs[1].value = runs[2].value
    /\ runs[1].results = <<NoErrorsRef, NoErrorsRef>>
    /\ runs[1].out = <<>>
    /\ Deref(runs[1].ret, mem) = <<Pushed>>
    /\ Deref(runs[2].ret, mem) = <<>>
    /\ runs[2].results = <<NoErrorsRef, NoErrorsRef>>

====
